---- MODULE Spec2Model ----
(***************************************************************************)
(* TP1 web crawler (src/TP1/crawler.py): the WebCrawler object, its        *)
(* priority frontier, visited set, robots gate and the crawl loop.         *)
(*                                                                         *)
(* A Python str is a sequence of one-character strings, so that the        *)
(* library calls the crawler makes on URLs (urlparse, urljoin, urlunparse, *)
(* str.lower, the substring test, str.startswith and the < of tuples of    *)
(* strings inside the heap) are computed character by character.           *)
(***************************************************************************)
EXTENDS Integers, Sequences, FiniteSets, TLC

(***************************************************************************)
(* Bounds of the model.                                                    *)
(***************************************************************************)
\* largest max_pages a run is started with
MaxPages == 2
\* most add_url_to_queue calls a client makes after crawl() has returned
MaxClientCalls == 1
\* most documents the indexer parses
MaxDocs == 2
\* most bytes of a response body
MaxBytes == 3
\* most "p" tags and most "a" tags of a parsed document
MaxParagraphs == 2
MaxAnchors == 2

(***************************************************************************)
(* Python str operations.                                                  *)
(***************************************************************************)
Range(s) == {s[i] : i \in DOMAIN s}

LowerLetters ==
  <<"a", "b", "c", "d", "e", "f", "g", "h", "i", "j", "k", "l", "m",
    "n", "o", "p", "q", "r", "s", "t", "u", "v", "w", "x", "y", "z">>

UpperLetters ==
  <<"A", "B", "C", "D", "E", "F", "G", "H", "I", "J", "K", "L", "M",
    "N", "O", "P", "Q", "R", "S", "T", "U", "V", "W", "X", "Y", "Z">>

Digits == <<"0", "1", "2", "3", "4", "5", "6", "7", "8", "9">>

IndexIn(s, c) == CHOOSE i \in DOMAIN s : s[i] = c

LowerSet == Range(LowerLetters)
UpperSet == Range(UpperLetters)
DigitSet == Range(Digits)

\* ord(c) for the characters that occur in the URLs of the model
Code(c) ==
  IF c \in LowerSet THEN 96 + IndexIn(LowerLetters, c)
  ELSE IF c \in UpperSet THEN 64 + IndexIn(UpperLetters, c)
  ELSE IF c \in DigitSet THEN 47 + IndexIn(Digits, c)
  ELSE CASE c = "#" -> 35
         [] c = "+" -> 43
         [] c = "-" -> 45
         [] c = "." -> 46
         [] c = "/" -> 47
         [] c = ":" -> 58
         [] c = ";" -> 59
         [] c = "=" -> 61
         [] c = "?" -> 63

\* s < t on Python strings: the first differing character decides, a proper
\* prefix is smaller
RECURSIVE StrLess(_, _)
StrLess(s, t) ==
  IF t = <<>> THEN FALSE
  ELSE IF s = <<>> THEN TRUE
  ELSE IF Head(s) = Head(t) THEN StrLess(Tail(s), Tail(t))
  ELSE Code(Head(s)) < Code(Head(t))

LowerChar(c) ==
  IF c \in UpperSet THEN LowerLetters[IndexIn(UpperLetters, c)]
  ELSE c

\* s.lower()
Lower(s) == [i \in DOMAIN s |-> LowerChar(s[i])]

\* s.startswith(p)
StartsWith(s, p) == Len(p) <= Len(s) /\ SubSeq(s, 1, Len(p)) = p

\* sub in s
Contains(s, sub) ==
  \E i \in 0..(Len(s) - Len(sub)) : SubSeq(s, i + 1, i + Len(sub)) = sub

\* s.find(c) for a character out of cs, 1-based; 0 when there is none
RECURSIVE FindFrom(_, _, _)
FindFrom(s, cs, i) ==
  IF i > Len(s) THEN 0
  ELSE IF s[i] \in cs THEN i
  ELSE FindFrom(s, cs, i + 1)

Find(s, cs) == FindFrom(s, cs, 1)

\* s[i:] with a 1-based i
From(s, i) == SubSeq(s, i, Len(s))

\* s.split(sep)
RECURSIVE Split(_, _)
Split(s, sep) ==
  LET i == Find(s, {sep})
  IN  IF i = 0 THEN <<s>>
      ELSE <<SubSeq(s, 1, i - 1)>> \o Split(From(s, i + 1), sep)

\* sep.join(parts)
RECURSIVE Join(_, _)
Join(parts, sep) ==
  IF parts = <<>> THEN <<>>
  ELSE IF Len(parts) = 1 THEN parts[1]
  ELSE parts[1] \o <<sep>> \o Join(Tail(parts), sep)

(***************************************************************************)
(* urllib.parse, as the crawler calls it.  The URLs of the model hold no   *)
(* ';', no '%', no blank and no control character, so params is always     *)
(* empty and nothing is stripped or unquoted.                              *)
(***************************************************************************)
SchemeChars == LowerSet \cup UpperSet \cup DigitSet \cup {"+", "-", "."}

Letters == LowerSet \cup UpperSet

IsAlpha(c) == c \in Letters

S_http == <<"h", "t", "t", "p">>
S_https == <<"h", "t", "t", "p", "s">>
S_file == <<"f", "i", "l", "e">>
S_ftp == <<"f", "t", "p">>

\* the schemes of urllib.parse.uses_relative and uses_netloc that the model's
\* URLs can carry (both lists hold '', http, https, file and ftp)
uses_relative == {<<>>, S_http, S_https, S_file, S_ftp}
uses_netloc == {<<>>, S_http, S_https, S_file, S_ftp}

\* The steps of urlsplit, last first.  Each step hands the pieces found so
\* far to the next one.

\* "if '?' in url: url, query = url.split('?', 1)", q being url.find('?')
SplitQuery(scheme, netloc, url, fragment, q) ==
  [scheme |-> scheme, netloc |-> netloc,
   path |-> IF q = 0 THEN url ELSE SubSeq(url, 1, q - 1),
   params |-> <<>>,
   query |-> IF q = 0 THEN <<>> ELSE From(url, q + 1),
   fragment |-> fragment]

\* "if '#' in url: url, fragment = url.split('#', 1)", f being url.find('#')
SplitFragment(scheme, netloc, url, f) ==
  SplitQuery(scheme, netloc,
             IF f = 0 THEN url ELSE SubSeq(url, 1, f - 1),
             IF f = 0 THEN <<>> ELSE From(url, f + 1),
             Find(IF f = 0 THEN url ELSE SubSeq(url, 1, f - 1), {"?"}))

\* _splitnetloc(url, 2): the netloc ends at the first of "/?#", found at j
SplitNetlocAt(scheme, url, j) ==
  SplitFragment(scheme,
                IF j = 0 THEN url ELSE SubSeq(url, 1, j - 1),
                IF j = 0 THEN <<>> ELSE From(url, j),
                IF j = 0 THEN 0 ELSE Find(From(url, j), {"#"}))

\* "if url[:2] == '//': netloc, url = _splitnetloc(url, 2)"
SplitNetloc(scheme, url) ==
  IF StartsWith(url, <<"/", "/">>)
  THEN SplitNetlocAt(scheme, From(url, 3), Find(From(url, 3), {"/", "?", "#"}))
  ELSE SplitFragment(scheme, <<>>, url, Find(url, {"#"}))

\* url[:i] is a scheme: i > 0, a letter first, scheme characters only
HasScheme(url, i) ==
  /\ i > 1
  /\ IsAlpha(url[1])
  /\ \A k \in 1..(i - 1) : url[k] \in SchemeChars

\* "scheme, url = url[:i].lower(), url[i+1:]", i being url.find(':')
SplitScheme(url, default, i) ==
  SplitNetloc(IF HasScheme(url, i) THEN Lower(SubSeq(url, 1, i - 1))
              ELSE default,
              IF HasScheme(url, i) THEN From(url, i + 1) ELSE url)

\* urlparse(url, scheme=default)
urlparse(url, default) == SplitScheme(url, default, Find(url, {":"}))

\* urlunsplit: "url = '//' + (netloc or '') + url" when there is a netloc or
\* the scheme takes one
UnsplitNetloc(scheme, netloc, url) ==
  IF \/ netloc # <<>>
     \/ (scheme # <<>> /\ scheme \in uses_netloc
           /\ ~StartsWith(url, <<"/", "/">>))
  THEN <<"/", "/">> \o netloc
         \o (IF url # <<>> /\ Head(url) # "/" THEN <<"/">> ELSE <<>>) \o url
  ELSE url

\* urlunsplit: "if scheme: url = scheme + ':' + url"
UnsplitScheme(scheme, url) ==
  IF scheme # <<>> THEN scheme \o <<":">> \o url ELSE url

\* urlunsplit: the query and the fragment are appended when not empty
UnsplitTail(url, query, fragment) ==
  url \o (IF query # <<>> THEN <<"?">> \o query ELSE <<>>)
      \o (IF fragment # <<>> THEN <<"#">> \o fragment ELSE <<>>)

\* urlunparse((scheme, netloc, path, params, query, fragment))
urlunparse(scheme, netloc, path, params, query, fragment) ==
  UnsplitTail(
    UnsplitScheme(scheme,
      UnsplitNetloc(scheme, netloc,
        IF params # <<>> THEN path \o <<";">> \o params ELSE path)),
    query, fragment)

\* the loop of urljoin over the path segments: '.' is dropped, '..' pops
RECURSIVE ResolveSegments(_, _)
ResolveSegments(segments, resolved) ==
  IF segments = <<>> THEN resolved
  ELSE IF Head(segments) = <<".", ".">>
  THEN ResolveSegments(Tail(segments),
         IF resolved = <<>> THEN resolved
         ELSE SubSeq(resolved, 1, Len(resolved) - 1))
  ELSE IF Head(segments) = <<".">>
  THEN ResolveSegments(Tail(segments), resolved)
  ELSE ResolveSegments(Tail(segments), Append(resolved, Head(segments)))

\* segments[1:-1] = filter(None, segments[1:-1])
FilterMiddle(segments) ==
  IF Len(segments) <= 2 THEN segments
  ELSE <<segments[1]>>
         \o SelectSeq(SubSeq(segments, 2, Len(segments) - 1),
                      LAMBDA seg : seg # <<>>)
         \o <<segments[Len(segments)]>>

\* "if base_parts[-1] != '': del base_parts[-1]"
BaseParts(base_parts) ==
  IF base_parts[Len(base_parts)] # <<>>
  THEN SubSeq(base_parts, 1, Len(base_parts) - 1) ELSE base_parts

\* the segments urljoin resolves: of the path alone when it is absolute,
\* else of the base directory followed by the path
Segments(bpath, path) ==
  IF Head(path) = "/" THEN Split(path, "/")
  ELSE FilterMiddle(BaseParts(Split(bpath, "/")) \o Split(path, "/"))

\* resolved_path, with the '' appended when the last segment is '.' or '..'
ResolvedPath(segments) ==
  IF segments[Len(segments)] \in {<<".">>, <<".", ".">>}
  THEN Append(ResolveSegments(segments, <<>>), <<>>)
  ELSE ResolveSegments(segments, <<>>)

\* "'/'.join(resolved_path) or '/'"
OrSlash(joined) == IF joined = <<>> THEN <<"/">> ELSE joined

\* urljoin once base and url are parsed into b and u
JoinParsed(url, b, u) ==
  IF u.scheme # b.scheme \/ u.scheme \notin uses_relative THEN url
  ELSE IF u.scheme \in uses_netloc /\ u.netloc # <<>>
  THEN urlunparse(u.scheme, u.netloc, u.path, u.params, u.query, u.fragment)
  ELSE IF u.path = <<>> /\ u.params = <<>>
  THEN urlunparse(u.scheme,
                  IF u.scheme \in uses_netloc THEN b.netloc ELSE u.netloc,
                  b.path, b.params,
                  IF u.query = <<>> THEN b.query ELSE u.query,
                  u.fragment)
  ELSE urlunparse(u.scheme,
                  IF u.scheme \in uses_netloc THEN b.netloc ELSE u.netloc,
                  OrSlash(Join(ResolvedPath(Segments(b.path, u.path)), "/")),
                  u.params, u.query, u.fragment)

\* urljoin once base is parsed into b: url is parsed with b's scheme as the
\* default
JoinBase(url, b) == JoinParsed(url, b, urlparse(url, b.scheme))

\* urljoin(base, url)
urljoin(base, url) ==
  IF base = <<>> THEN url
  ELSE IF url = <<>> THEN base
  ELSE JoinBase(url, urlparse(base, <<>>))

(***************************************************************************)
(* The URLs, hrefs, documents and robots files of the model.               *)
(***************************************************************************)
U_root == <<"h", "t", "t", "p", ":", "/", "/", "e", "x", "a", "m", "p", "l",
            "e", ".", "t", "e", "s", "t", "/">>
U_a == U_root \o <<"a">>
U_c == U_root \o <<"c">>
U_p == U_root \o <<"p">>
U_p_top == U_p \o <<"#", "t", "o", "p">>
U_private == U_root \o <<"p", "r", "i", "v", "a", "t", "e">>
U_product1 == U_root \o <<"p", "r", "o", "d", "u", "c", "t", "/", "1">>
U_producta == U_root \o <<"p", "r", "o", "d", "u", "c", "t", "/", "a">>
U_productb == U_root \o <<"p", "r", "o", "d", "u", "c", "t", "/", "b">>
U_Product2 == U_root \o <<"P", "r", "o", "d", "u", "c", "t", "/", "2">>
U_file == <<"f", "i", "l", "e", ":", "/", "/", "/", "x">>
U_other == <<"h", "t", "t", "p", ":", "/", "/", "o", "t", "h", "e", "r", ".",
             "t", "e", "s", "t", "/", "x">>

H_root == <<"/">>
H_a == <<"/", "a">>
H_c == <<"/", "c">>
H_p == <<"/", "p">>
H_private == <<"/", "p", "r", "i", "v", "a", "t", "e">>
H_product1 == <<"/", "p", "r", "o", "d", "u", "c", "t", "/", "1">>
H_producta == <<"/", "p", "r", "o", "d", "u", "c", "t", "/", "a">>
H_productb == <<"/", "p", "r", "o", "d", "u", "c", "t", "/", "b">>
H_Product2 == <<"/", "P", "r", "o", "d", "u", "c", "t", "/", "2">>
H_frag1 == <<"p", "#", "f", "r", "a", "g", "1">>
H_frag2 == <<"p", "#", "f", "r", "a", "g", "2">>
H_bad == <<"/", "/", "[">>

\* start_url of a run: a plain page, a URL with a fragment, a product page
Seeds == {U_root, U_p_top, U_product1}

\* the href lists of the documents the site serves: no anchor; one page;
\* the three links of the scenario of the specification; two links that
\* differ in the fragment; three links whose frontier order differs from
\* their document order; a link back to the seed, an upper-case product
\* page and a repeated link; another host, no host and the seed's page
DocCatalogue ==
  { <<>>,
    <<H_a>>,
    <<H_a, H_product1, H_private>>,
    <<H_frag1, H_frag2>>,
    <<H_productb, H_producta, H_c>>,
    <<H_root, H_Product2, H_a, H_a>>,
    <<U_other, U_file, H_p>>,
    <<H_a, H_bad>> }

\* what make_request can return: None, the empty text, or the text of an
\* HTML document, held as the hrefs of the anchors of its body in document
\* order
None == [kind |-> "None", anchors |-> <<>>]
EmptyText == [kind |-> "empty", anchors |-> <<>>]
HtmlDoc(anchors) == [kind |-> "html", anchors |-> anchors]
Docs == {HtmlDoc(a) : a \in DocCatalogue}

\* no page request was made yet
NoResponse == [status |-> "none", content_type |-> "", body |-> None]

\* what the server answers to a page request
Responses ==
  {[status |-> "http_error", content_type |-> "", body |-> None],
   [status |-> "url_error", content_type |-> "", body |-> None],
   [status |-> "ok", content_type |-> "application/pdf", body |-> EmptyText],
   [status |-> "ok", content_type |-> "text/html", body |-> EmptyText]}
  \cup {[status |-> "ok", content_type |-> "text/html", body |-> d] :
          d \in Docs}

\* the rule lines of the "User-agent: *" entry of a robots.txt that loads
Disallow(path) == [path |-> path, allowance |-> FALSE]
RobotsFiles == {<<>>, <<Disallow(H_private)>>, <<Disallow(H_p)>>}

(***************************************************************************)
(* State of a WebCrawler object and of the run of main() on it.            *)
(***************************************************************************)
VARIABLES
  pc,                 \* where main() stands: SEEDING, RUNNING, DONE, SAVED,
                      \* or ABORTED once crawl() has raised; in the indexer
                      \* INDEXING, INDEXED, or INDEX_FAILED once a method
                      \* has raised
                      \* in make_request READ, RETURNED; in
                      \* extract_content PARSED, EXTRACTED, or
                      \* EXTRACT_RAISED
  start_url,          \* self.start_url
  base_domain,        \* self.base_domain
  max_pages,          \* self.max_pages
  url_queue,          \* self.url_queue.queue, the heap list of (priority, url)
  visited_urls,       \* self.visited_urls
  results,            \* self.results
  pages_crawled,      \* the local pages_crawled of crawl()
  robots_txt_loaded,  \* self.robots_txt_loaded
  robot_rules,        \* the rule lines self.robot_parser holds for "*"
  requests,           \* history: the url of every make_request call
  extracted,          \* history: the text of every extract_content call
  dequeued,           \* history: the entries url_queue.get() returned
  enqueued,           \* history: the URLs url_queue.put() stored
  saved,              \* what save_results returned: "none" before it ran
  calls,              \* history: the URLs of a client's add_url_to_queue calls
  received,           \* what the site answered to the last make_request call
  events,             \* history: the sleeps and the urlopen calls, in order
  written,            \* the result file was written in full
  documents,          \* the documents that the indexer's main() parsed
  indexes,            \* the indexes that the indexer's main() built, in order
  html_bytes,         \* the body that response.read() gave to make_request
  html_text,          \* the text that make_request returned for it
  soup,               \* the document that extract_content parses
  page                \* the dict that extract_content returned for it

vars == <<pc, start_url, base_domain, max_pages, url_queue, visited_urls,
          results, pages_crawled, robots_txt_loaded, robot_rules, requests,
          extracted, dequeued, enqueued, saved, calls, received, events,
          written, documents, indexes, html_bytes, html_text, soup, page>>

(***************************************************************************)
(* queue.PriorityQueue: put is heapq.heappush and get is heapq.heappop on  *)
(* the list self.queue.  Positions are 1-based here, so the parent of pos  *)
(* is pos \div 2 and its children are 2*pos and 2*pos + 1.                 *)
(***************************************************************************)
\* a < b on the tuples (priority, url)
ItemLess(a, b) ==
  \/ a[1] < b[1]
  \/ a[1] = b[1] /\ StrLess(a[2], b[2])

\* heapq._siftdown(heap, startpos, pos), newitem being the item lifted
RECURSIVE siftdown(_, _, _, _)
siftdown(heap, startpos, pos, newitem) ==
  IF pos > startpos /\ ItemLess(newitem, heap[pos \div 2])
  THEN siftdown([heap EXCEPT ![pos] = heap[pos \div 2]], startpos,
                pos \div 2, newitem)
  ELSE [heap EXCEPT ![pos] = newitem]

\* heappush that appends and never sifts the new item up
heappush_nosift(heap, item) == Append(heap, item)

\* heapq.heappush(heap, item)
heappush(heap, item) == siftdown(Append(heap, item), 1, Len(heap) + 1, item)

\* the child _siftup moves up: the right one unless the left one is smaller
SmallerChild(heap, childpos) ==
  IF childpos + 1 <= Len(heap) /\ ~ItemLess(heap[childpos], heap[childpos + 1])
  THEN childpos + 1 ELSE childpos

\* the while loop of heapq._siftup: the smaller child moves up until a leaf
\* is reached; gives the list and the leaf position
RECURSIVE siftup_loop(_, _)
siftup_loop(heap, pos) ==
  IF 2 * pos <= Len(heap)
  THEN siftup_loop([heap EXCEPT ![pos] = heap[SmallerChild(heap, 2 * pos)]],
                   SmallerChild(heap, 2 * pos))
  ELSE <<heap, pos>>

\* the end of heapq._siftup: newitem is put at the leaf and sifted down
siftup_end(startpos, newitem, bubbled) ==
  siftdown(bubbled[1], startpos, bubbled[2], newitem)

\* heapq._siftup(heap, pos)
siftup(heap, pos) == siftup_end(pos, heap[pos], siftup_loop(heap, pos))

\* heapq.heappop(heap): the item returned and the list left (heap not empty)
heappop(heap) ==
  IF Len(heap) > 1
  THEN [item |-> heap[1],
        heap |-> siftup([SubSeq(heap, 1, Len(heap) - 1)
                           EXCEPT ![1] = heap[Len(heap)]], 1)]
  ELSE [item |-> heap[Len(heap)], heap |-> <<>>]

(***************************************************************************)
(* The methods of WebCrawler.                                              *)
(***************************************************************************)
S_product == <<"p", "r", "o", "d", "u", "c", "t">>

\* get_priority that knows no product pages
get_priority_flat(url) == 1

\* get_priority(url)
get_priority(url) == IF Contains(Lower(url), S_product) THEN 0 ELSE 1

\* add_url_to_queue without the scan of the pending entries
add_url_to_queue_noscan(queue, visited, url) ==
  IF url \in visited THEN queue
  ELSE heappush(queue, <<get_priority(url), url>>)

\* an add_url_to_queue that queues the URL in lower case
add_url_to_queue_lower(queue, visited, url) ==
  IF Lower(url) \in visited THEN queue
  ELSE IF \E i \in DOMAIN queue : queue[i][2] = Lower(url) THEN queue
  ELSE heappush(queue, <<get_priority(url), Lower(url)>>)

\* add_url_to_queue(url) on the queue and visited set given: the new queue
add_url_to_queue(queue, visited, url) ==
  IF url \in visited THEN queue
  ELSE IF \E i \in DOMAIN queue : queue[i][2] = url THEN queue
  ELSE heappush(queue, <<get_priority(url), url>>)

\* urllib.parse.quote(s): letters, digits, "_.-~" and "/" stay, any other
\* character becomes its %XX escape
QuoteChar(c) ==
  CASE c = "#" -> <<"%", "2", "3">>
    [] c = ":" -> <<"%", "3", "A">>
    [] c = ";" -> <<"%", "3", "B">>
    [] c = "?" -> <<"%", "3", "F">>
    [] c = "+" -> <<"%", "2", "B">>
    [] OTHER -> <<c>>

RECURSIVE Quote(_)
Quote(s) == IF s = <<>> THEN <<>> ELSE QuoteChar(Head(s)) \o Quote(Tail(s))

\* "if not url: url = '/'"
OrRoot(url) == IF url = <<>> THEN <<"/">> ELSE url

\* the path that RobotFileParser.can_fetch matches the rule lines against,
\* from the parsed URL
TargetOf(parsed_url) ==
  OrRoot(Quote(urlunparse(<<>>, <<>>, parsed_url.path, parsed_url.params,
                          parsed_url.query, parsed_url.fragment)))

RobotsTarget(url) == TargetOf(urlparse(url, <<>>))

\* Entry.allowance(filename): the first rule line that applies decides
RECURSIVE allowance(_, _)
allowance(rulelines, filename) ==
  IF rulelines = <<>> THEN TRUE
  ELSE IF StartsWith(filename, Head(rulelines).path)
  THEN Head(rulelines).allowance
  ELSE allowance(Tail(rulelines), filename)

\* can_fetch that never consults the parsed rules
can_fetch_open(url) == TRUE

\* can_fetch that asks the parser whether robots.txt was loaded or not
can_fetch_noflag(url) == allowance(robot_rules, RobotsTarget(url))

\* can_fetch(url)
can_fetch(url) ==
  IF ~robots_txt_loaded THEN TRUE
  ELSE allowance(robot_rules, RobotsTarget(url))

\* make_request(url), given what the server answers: None or the text
make_request(response) ==
  IF response.status # "ok" THEN None
  ELSE IF response.content_type # "text/html" THEN None
  ELSE response.body

\* a test that takes whatever make_request returned for a page
Truthy_any(html_content) == TRUE

\* "if html_content:" -- None and the empty text are false
Truthy(html_content) == html_content.kind = "html"

SkippedPrefixes ==
  { <<"j", "a", "v", "a", "s", "c", "r", "i", "p", "t", ":">>,
    <<"m", "a", "i", "l", "t", "o", ":">>,
    <<"t", "e", "l", ":">>,
    <<"#">> }

\* the loop body without the test of the host against base_domain
CleanLink_anyhost(full_link, parsed_link) ==
  << [url |-> urlunparse(parsed_link.scheme, parsed_link.netloc,
                         parsed_link.path, parsed_link.params,
                         parsed_link.query, <<>>)] >>

\* the loop body that keeps the fragment of the resolved link
CleanLink_keepfragment(full_link, parsed_link) ==
  IF parsed_link.netloc # <<>> /\ parsed_link.netloc # base_domain
  THEN <<>>
  ELSE << [url |-> full_link] >>

\* the loop body of extract_content from the resolved link on: a link of
\* another host is dropped, else the link is appended without its fragment
CleanLink(full_link, parsed_link) ==
  IF parsed_link.netloc # <<>> /\ parsed_link.netloc # base_domain
  THEN <<>>
  ELSE << [url |-> urlunparse(parsed_link.scheme, parsed_link.netloc,
                              parsed_link.path, parsed_link.params,
                              parsed_link.query, <<>>)] >>

\* "parsed_link = urllib.parse.urlparse(full_link)" and what follows
ResolvedLink(full_link) == CleanLink(full_link, urlparse(full_link, <<>>))

\* the body of the loop of extract_content over one anchor: the links it
\* appends (none or one)
LinkOf(link_url, url) ==
  IF link_url = <<>> \/ \E pre \in SkippedPrefixes : StartsWith(link_url, pre)
  THEN <<>>
  ELSE ResolvedLink(urljoin(url, link_url))

RECURSIVE LinksOf(_, _)
LinksOf(anchors, url) ==
  IF anchors = <<>> THEN <<>>
  ELSE LinkOf(Head(anchors), url) \o LinksOf(Tail(anchors), url)

\* urlsplit raises ValueError("Invalid IPv6 URL") on a netloc that has one
\* of "[" and "]" without the other
InvalidNetloc(netloc) ==
  ("[" \in Range(netloc)) # ("]" \in Range(netloc))

\* the anchor makes urljoin(url, link_url) raise
LinkRaises(link_url, url) ==
  /\ link_url # <<>>
  /\ \A pre \in SkippedPrefixes : ~StartsWith(link_url, pre)
  /\ InvalidNetloc(urlparse(link_url, <<>>).netloc)

\* extract_content(html_content, url) raises: one of the anchors does
Raises(anchors, url) == \E i \in DOMAIN anchors : LinkRaises(anchors[i], url)

\* the links without those whose URL an earlier link has
RECURSIVE Unique(_)
Unique(links) ==
  IF links = <<>> THEN <<>>
  ELSE IF \E i \in 1..(Len(links) - 1) : links[i].url = links[Len(links)].url
  THEN Unique(SubSeq(links, 1, Len(links) - 1))
  ELSE Append(Unique(SubSeq(links, 1, Len(links) - 1)), links[Len(links)])

\* an extract_content that returns every URL once
extract_content_unique(html_content, url) ==
  [url |-> url, links |-> Unique(LinksOf(html_content.anchors, url))]

\* extract_content(html_content, url): the url and the links of the page
extract_content(html_content, url) ==
  [url |-> url, links |-> LinksOf(html_content.anchors, url)]

\* a loop that keeps only the URL it dequeued
mark_visited_only(visited, url) == {url}

\* a loop that forgets to record the URL it dequeued
mark_visited_forget(visited, url) == visited

\* self.visited_urls.add(current_url)
mark_visited(visited, url) == visited \cup {url}

\* a loop condition that does not test the queue
LoopCond_budgetonly(queue, crawled, budget) == crawled < budget

\* a loop condition that is off by one on the budget
LoopCond_offbyone(queue, crawled, budget) == queue # <<>> /\ crawled <= budget

\* the condition of the while loop of crawl()
LoopCond(queue, crawled, budget) == queue # <<>> /\ crawled < budget

\* "for link in page_data['links']: if link['url'] not in self.visited_urls:
\* self.add_url_to_queue(link['url'])": the new queue
RECURSIVE AddLinks(_, _, _)
AddLinks(queue, visited, links) ==
  IF links = <<>> THEN queue
  ELSE AddLinks(IF Head(links).url \notin visited
                THEN add_url_to_queue(queue, visited, Head(links).url)
                ELSE queue,
                visited, Tail(links))

QueueUrls(queue) == {queue[i][2] : i \in DOMAIN queue}

\* the pass for a page that was fetched: the record is appended, its links
\* are enqueued, pages_crawled is incremented
Crawled(got, html_content, page_data) ==
  [queue |-> AddLinks(got.heap, mark_visited(visited_urls, got.item[2]),
                      page_data.links),
   visited |-> mark_visited(visited_urls, got.item[2]),
   results |-> Append(results, page_data),
   crawled |-> pages_crawled + 1,
   requests |-> Append(requests, got.item[2]),
   extracted |-> Append(extracted, html_content),
   dequeued |-> Append(dequeued, got.item),
   pc |-> "RUNNING"]

\* the pass for a page that was fetched and whose extraction raises: the
\* exception leaves crawl(), which has no handler around extract_content
Raised(got, html_content) ==
  [queue |-> got.heap,
   visited |-> mark_visited(visited_urls, got.item[2]),
   results |-> results, crawled |-> pages_crawled,
   requests |-> Append(requests, got.item[2]),
   extracted |-> Append(extracted, html_content),
   dequeued |-> Append(dequeued, got.item),
   pc |-> "ABORTED"]

\* the pass from make_request on
Fetched(got, html_content) ==
  IF Truthy(html_content)
  THEN IF Raises(html_content.anchors, got.item[2])
       THEN Raised(got, html_content)
       ELSE Crawled(got, html_content,
                    extract_content(html_content, got.item[2]))
  ELSE [queue |-> got.heap,
        visited |-> mark_visited(visited_urls, got.item[2]),
        results |-> results, crawled |-> pages_crawled,
        requests |-> Append(requests, got.item[2]),
        extracted |-> extracted,
        dequeued |-> Append(dequeued, got.item),
        pc |-> "RUNNING"]

\* the pass once the entry got is dequeued, the server answering response
Dequeued(got, response) ==
  IF got.item[2] \in visited_urls
  THEN [queue |-> got.heap, visited |-> visited_urls,
        results |-> results, crawled |-> pages_crawled,
        requests |-> requests, extracted |-> extracted,
        dequeued |-> Append(dequeued, got.item),
        pc |-> "RUNNING"]
  ELSE IF ~can_fetch(got.item[2])
  THEN [queue |-> got.heap,
        visited |-> mark_visited(visited_urls, got.item[2]),
        results |-> results, crawled |-> pages_crawled,
        requests |-> requests, extracted |-> extracted,
        dequeued |-> Append(dequeued, got.item),
        pc |-> "RUNNING"]
  ELSE Fetched(got, make_request(response))

\* one pass of the while loop of crawl(), the server answering response:
\* the new values of the state
Iteration(response) == Dequeued(heappop(url_queue), response)

\* a make_request that does not sleep
make_request_steps_nosleep == <<"urlopen_page">>

\* what make_request does before it looks at the answer: time.sleep(delay),
\* then urlopen(req)
make_request_steps == <<"sleep", "urlopen_page">>

\* what fetch_robots_txt does: urlopen(req), no sleep
fetch_robots_txt_steps == <<"urlopen_robots">>

\* the assignments of one pass, the server answering response
Assign(new, response) ==
  /\ pc' = new.pc
  /\ received' = IF new.requests # requests THEN response ELSE received
  /\ events' = IF new.requests # requests
               THEN events \o make_request_steps ELSE events
  /\ url_queue' = new.queue
  /\ visited_urls' = new.visited
  /\ results' = new.results
  /\ pages_crawled' = new.crawled
  /\ requests' = new.requests
  /\ extracted' = new.extracted
  /\ dequeued' = new.dequeued

(***************************************************************************)
(* Init: the object main() constructs.  Actions: the steps of main().      *)
(***************************************************************************)
Init ==
  /\ pc = "SEEDING"
  /\ start_url \in Seeds
  /\ base_domain = urlparse(start_url, <<>>).netloc
  /\ max_pages \in 1..MaxPages
  /\ url_queue = <<>>
  /\ visited_urls = {}
  /\ results = <<>>
  /\ pages_crawled = 0
  /\ robots_txt_loaded = FALSE
  /\ robot_rules = <<>>
  /\ requests = <<>>
  /\ extracted = <<>>
  /\ dequeued = <<>>
  /\ enqueued = {}
  /\ saved = "none"
  /\ calls = <<>>
  /\ received = NoResponse
  /\ events = <<>>
  /\ written = FALSE
  /\ documents = <<>>
  /\ indexes = <<>>
  /\ html_bytes = <<>>
  /\ html_text = <<>>
  /\ soup = <<>>
  /\ page = <<>>

\* crawl() up to its loop: fetch_robots_txt() fails (the parser holding the
\* rule lines it had read, if any) or loads a file, the start URL is queued,
\* pages_crawled = 0
Seeding ==
  /\ pc = "SEEDING"
  /\ \/ /\ robots_txt_loaded' = FALSE
        /\ \E rules \in RobotsFiles : robot_rules' = rules
     \/ \E rules \in RobotsFiles :
          robots_txt_loaded' = TRUE /\ robot_rules' = rules
  /\ events' = events \o fetch_robots_txt_steps
  /\ url_queue' = add_url_to_queue(url_queue, visited_urls, start_url)
  /\ enqueued' = enqueued \cup QueueUrls(url_queue')
  /\ pages_crawled' = 0
  /\ pc' = "RUNNING"
  /\ UNCHANGED <<start_url, base_domain, max_pages, visited_urls, results,
                 requests, extracted, dequeued, saved, calls, received,
                 written,
                 documents, indexes, html_bytes, html_text, soup, page>>

\* one pass of the while loop; url_queue.get() blocks while the queue is
\* empty
Iterate ==
  /\ pc = "RUNNING"
  /\ LoopCond(url_queue, pages_crawled, max_pages)
  /\ url_queue # <<>>
  /\ \E response \in Responses : Assign(Iteration(response), response)
  /\ enqueued' = enqueued \cup QueueUrls(url_queue')
  /\ UNCHANGED <<start_url, base_domain, max_pages, robots_txt_loaded,
                 robot_rules, saved, calls, written,
                 documents, indexes, html_bytes, html_text, soup, page>>

\* the while condition is false: crawl() returns
Finish ==
  /\ pc = "RUNNING"
  /\ ~LoopCond(url_queue, pages_crawled, max_pages)
  /\ pc' = "DONE"
  /\ UNCHANGED <<start_url, base_domain, max_pages, url_queue, visited_urls,
                 results, pages_crawled, robots_txt_loaded, robot_rules,
                 requests, extracted, dequeued, enqueued, saved, calls,
                 received, events, written,
                 documents, indexes, html_bytes, html_text, soup, page>>

\* a save_results that lets the exception of the write out
save_results_raise(ok) == IF ok THEN "True" ELSE "raised"

\* what save_results returns: True after the write, False when open or
\* json.dump raised and the handler caught it
save_results(ok) == IF ok THEN "True" ELSE "False"

\* save_results(): the write succeeds or fails
SaveResults ==
  /\ pc = "DONE"
  /\ \E ok \in BOOLEAN : written' = ok /\ saved' = save_results(ok)
  /\ pc' = "SAVED"
  /\ UNCHANGED <<start_url, base_domain, max_pages, url_queue, visited_urls,
                 results, pages_crawled, robots_txt_loaded, robot_rules,
                 requests, extracted, dequeued, enqueued, calls, received,
                 events,
                 documents, indexes, html_bytes, html_text, soup, page>>

Next == Seeding \/ Iterate \/ Finish \/ SaveResults

Spec == Init /\ [][Next]_vars

\* the head of a pass: the loop condition holds and get() returns the entry
\* at the head of the heap list
Get ==
  /\ pc = "RUNNING"
  /\ LoopCond(url_queue, pages_crawled, max_pages)
  /\ url_queue # <<>>
  /\ dequeued' = Append(dequeued, url_queue[1])

\* main() is a sequential program that is never suspended: urlopen has a
\* timeout (lines 54 and 89) and time.sleep returns, so when crawl() can
\* start, when a pass can dequeue and when the loop can end, it does, and
\* when crawl() has returned save_results() is called (line 284)
SpecLive ==
  Init /\ [][Next]_vars
       /\ WF_vars(Seeding) /\ WF_dequeued(Get) /\ WF_vars(Finish)
       /\ WF_vars(SaveResults)

(***************************************************************************)
(* The object as a library: once crawl() has returned, code that holds the *)
(* crawler may call add_url_to_queue() on it with any URL.                 *)
(***************************************************************************)
ClientUrls == {U_root, U_a, U_product1, U_p}

\* the runs of main() with max_pages = 1
InitApi == Init /\ max_pages = 1

ClientEnqueue ==
  /\ pc = "DONE"
  /\ Len(calls) < MaxClientCalls
  /\ \E url \in ClientUrls :
       /\ url_queue' = add_url_to_queue(url_queue, visited_urls, url)
       /\ calls' = Append(calls, url)
  /\ enqueued' = enqueued \cup QueueUrls(url_queue')
  /\ UNCHANGED <<pc, start_url, base_domain, max_pages, visited_urls, results,
                 pages_crawled, robots_txt_loaded, robot_rules, requests,
                 extracted, dequeued, saved, received, events, written,
                 documents, indexes, html_bytes, html_text, soup, page>>

NextApi == Next \/ ClientEnqueue

SpecApi == InitApi /\ [][NextApi]_vars

(***************************************************************************)
(* TP2 indexer (src/TP2/tp2.py): IndexBuilder and the index-building calls *)
(* of its main().                                                          *)
(*                                                                         *)
(* A document is a function from its keys to their values; a dict that a   *)
(* method builds is a function from its keys; product_features is the list *)
(* of the (key, value) pairs of the dict in its order, with str values;     *)
(* product_reviews is a list of reviews.  The only white space of the texts *)
(* of the model is the blank.                                              *)
(***************************************************************************)
\* a Python value that may be None
Py(v) == [none |-> FALSE, val |-> v]
PyNone == [none |-> TRUE, val |-> <<>>]

\* dict.get that forgets its default
get_nodefault(doc, key, default) ==
  IF key \in DOMAIN doc THEN Py(doc[key]) ELSE PyNone

\* doc.get(key, default)
get(doc, key, default) ==
  IF key \in DOMAIN doc THEN Py(doc[key]) ELSE Py(default)

\* {}
EmptyDict == [k \in {} |-> <<>>]

Whitespace == {" "}

\* string.punctuation, less the grave accent (a string the parser of TLA+
\* cannot hold), which no text of the model contains
Punctuation ==
  {"!", "\"", "#", "$", "%", "&", "'", "(", ")", "*", "+", ",", "-", ".",
   "/", ":", ";", "<", "=", ">", "?", "@", "[", "\\", "]", "^", "_",
   "{", "|", "}", "~"}

UpperChar(c) ==
  IF c \in LowerSet THEN UpperLetters[IndexIn(LowerLetters, c)]
  ELSE c

\* s.title(): a letter that follows no letter is upper case, any other
\* letter is lower case
title(s) ==
  [i \in DOMAIN s |->
     IF i = 1 \/ s[i - 1] \notin Letters
     THEN UpperChar(s[i]) ELSE LowerChar(s[i])]

\* s.lstrip()
RECURSIVE lstrip(_)
lstrip(s) ==
  IF s # <<>> /\ Head(s) \in Whitespace THEN lstrip(Tail(s)) ELSE s

\* s.rstrip()
RECURSIVE rstrip(_)
rstrip(s) ==
  IF s # <<>> /\ s[Len(s)] \in Whitespace
  THEN rstrip(SubSeq(s, 1, Len(s) - 1)) ELSE s

\* s.strip()
strip(s) == rstrip(lstrip(s))

\* s.split(): the maximal runs of characters that are no white space
RECURSIVE split(_)
RECURSIVE split_word(_, _)
split(s) ==
  IF s = <<>> THEN <<>>
  ELSE IF Head(s) \in Whitespace THEN split(Tail(s))
  ELSE split_word(s, Find(s, Whitespace))

split_word(s, i) ==
  IF i = 0 THEN <<s>>
  ELSE <<SubSeq(s, 1, i - 1)>> \o split(From(s, i + 1))

\* list.sort() on a list of str
RECURSIVE insort(_, _)
insort(sorted, x) ==
  IF sorted = <<>> THEN <<x>>
  ELSE IF StrLess(x, Head(sorted)) THEN <<x>> \o sorted
  ELSE <<Head(sorted)>> \o insort(Tail(sorted), x)

RECURSIVE sort(_)
sort(list) ==
  IF list = <<>> THEN <<>> ELSE insort(sort(Tail(list)), Head(list))

\* "if key not in index: index[key] = []" and "if url not in index[key]:
\* index[key].append(url)"
add_url(index, key, url) ==
  IF key \notin DOMAIN index THEN index @@ (key :> <<url>>)
  ELSE IF url \in Range(index[key]) THEN index
  ELSE [index EXCEPT ![key] = Append(@, url)]

\* the same for each key of a list, in its order
RECURSIVE add_urls(_, _, _)
add_urls(index, keys, url) ==
  IF keys = <<>> THEN index
  ELSE add_urls(add_url(index, Head(keys), url), Tail(keys), url)

\* "for key in index: index[key].sort()"
sort_urls(index) == [k \in DOMAIN index |-> sort(index[k])]

\* what a method gives: the index it returns, or the exception it raises
Returned(index) == [raised |-> FALSE, index |-> index]
RaisedError == [raised |-> TRUE, index |-> EmptyDict]

\* any(keyword in text for keyword in keywords)
ContainsAny(text, keywords) ==
  \E i \in DOMAIN keywords : Contains(text, keywords[i])

\* the keywords of a list that text contains, in the order of the list
Found(text, keywords) ==
  SelectSeq(keywords, LAMBDA keyword : Contains(text, keyword))

\* "for key, value in features.items(): if <a keyword> in key.lower():
\* ... break": the value of the first such key, or None
RECURSIVE first_value(_, _)
first_value(features, keywords) ==
  IF features = <<>> THEN PyNone
  ELSE IF ContainsAny(Lower(Head(features)[1]), keywords)
  THEN Py(Head(features)[2])
  ELSE first_value(Tail(features), keywords)

\* self.stopwords
stopwords ==
  { <<"a">>, <<"a", "n">>, <<"t", "h", "e">>, <<"a", "n", "d">>,
    <<"o", "r">>, <<"b", "u", "t">>, <<"i", "n">>, <<"o", "n">>,
    <<"a", "t">>, <<"t", "o">>, <<"f", "o", "r">>, <<"o", "f">>,
    <<"w", "i", "t", "h">>, <<"b", "y">>, <<"i", "s">>, <<"a", "r", "e">>,
    <<"w", "a", "s">>, <<"w", "e", "r", "e">>, <<"b", "e">>,
    <<"b", "e", "e", "n">>, <<"b", "e", "i", "n", "g">>,
    <<"h", "a", "v", "e">>, <<"h", "a", "s">>, <<"h", "a", "d">>,
    <<"d", "o">>, <<"d", "o", "e", "s">>, <<"d", "i", "d">>,
    <<"w", "i", "l", "l">>, <<"w", "o", "u", "l", "d">>,
    <<"s", "h", "a", "l", "l">>, <<"s", "h", "o", "u", "l", "d">>,
    <<"m", "a", "y">>, <<"m", "i", "g", "h", "t">>, <<"m", "u", "s", "t">>,
    <<"c", "a", "n">>, <<"c", "o", "u", "l", "d">>, <<"i">>,
    <<"y", "o", "u">>, <<"h", "e">>, <<"s", "h", "e">>, <<"i", "t">>,
    <<"w", "e">>, <<"t", "h", "e", "y">>, <<"m", "e">>, <<"h", "i", "m">>,
    <<"h", "e", "r">>, <<"u", "s">>, <<"t", "h", "e", "m">>, <<"m", "y">>,
    <<"y", "o", "u", "r">>, <<"h", "i", "s">>, <<"i", "t", "s">>,
    <<"o", "u", "r">>, <<"t", "h", "e", "i", "r">>, <<"m", "i", "n", "e">>,
    <<"y", "o", "u", "r", "s">>, <<"h", "e", "r", "s">>,
    <<"o", "u", "r", "s">>, <<"t", "h", "e", "i", "r", "s">> }

\* the size keywords looked for in the variant of a URL
size_keywords ==
  << <<"s", "m", "a", "l", "l">>, <<"m", "e", "d", "i", "u", "m">>,
     <<"l", "a", "r", "g", "e">>, <<"x", "s">>, <<"s">>, <<"m">>, <<"l">>,
     <<"x", "l">> >>

\* common_colors
common_colors ==
  << <<"r", "e", "d">>, <<"b", "l", "u", "e">>,
     <<"g", "r", "e", "e", "n">>, <<"y", "e", "l", "l", "o", "w">>,
     <<"b", "l", "a", "c", "k">>, <<"w", "h", "i", "t", "e">>,
     <<"o", "r", "a", "n", "g", "e">>, <<"p", "u", "r", "p", "l", "e">>,
     <<"p", "i", "n", "k">>, <<"b", "r", "o", "w", "n">>,
     <<"g", "r", "a", "y">>, <<"g", "r", "e", "y">>,
     <<"b", "e", "i", "g", "e">>, <<"s", "i", "l", "v", "e", "r">>,
     <<"g", "o", "l", "d">>, <<"n", "a", "v", "y">>,
     <<"t", "e", "a", "l">>, <<"m", "a", "r", "o", "o", "n">> >>

\* category_keywords, in the order of the dict
category_keywords ==
  << [category |-> <<"f", "o", "o", "d">>,
      keywords |->
        << <<"c", "h", "o", "c", "o", "l", "a", "t", "e">>,
           <<"c", "a", "n", "d", "y">>, <<"p", "o", "t", "i", "o", "n">>,
           <<"d", "r", "i", "n", "k">>,
           <<"b", "e", "v", "e", "r", "a", "g", "e">>,
           <<"c", "o", "l", "a">>, <<"b", "e", "r", "r", "y">>,
           <<"f", "l", "a", "v", "o", "r">> >>],
     [category |-> <<"f", "o", "o", "t", "w", "e", "a", "r">>,
      keywords |->
        << <<"s", "n", "e", "a", "k", "e", "r", "s">>,
           <<"s", "h", "o", "e", "s">>, <<"b", "o", "o", "t", "s">>,
           <<"s", "a", "n", "d", "a", "l", "s">>, <<"h", "e", "e", "l">>,
           <<"f", "o", "o", "t", "b", "e", "d">>, <<"s", "o", "l", "e">> >>],
     [category |-> <<"c", "l", "o", "t", "h", "i", "n", "g">>,
      keywords |->
        << <<"b", "e", "a", "n", "i", "e">>, <<"h", "a", "t">>,
           <<"d", "r", "e", "s", "s">>, <<"s", "h", "i", "r", "t">>,
           <<"p", "a", "n", "t", "s">>,
           <<"w", "a", "r", "d", "r", "o", "b", "e">>,
           <<"o", "u", "t", "f", "i", "t">> >>],
     [category |-> <<"e", "l", "e", "c", "t", "r", "o", "n", "i", "c", "s">>,
      keywords |->
        << <<"l", "e", "d">>, <<"l", "i", "g", "h", "t">>,
           <<"b", "a", "t", "t", "e", "r", "y">>,
           <<"e", "l", "e", "c", "t", "r", "o", "n", "i", "c">>,
           <<"d", "i", "g", "i", "t", "a", "l">> >>],
     [category |-> <<"a", "c", "c", "e", "s", "s", "o", "r", "i", "e", "s">>,
      keywords |->
        << <<"a", "c", "c", "e", "s", "s", "o", "r", "y">>,
           <<"b", "a", "g">>, <<"w", "a", "l", "l", "e", "t">>,
           <<"b", "e", "l", "t">>, <<"w", "a", "t", "c", "h">> >>],
     [category |-> <<"s", "p", "o", "r", "t", "s">>,
      keywords |->
        << <<"h", "i", "k", "i", "n", "g">>,
           <<"o", "u", "t", "d", "o", "o", "r">>,
           <<"r", "u", "n", "n", "i", "n", "g">>,
           <<"s", "p", "o", "r", "t">>, <<"a", "c", "t", "i", "v", "e">>,
           <<"p", "e", "r", "f", "o", "r", "m", "a", "n", "c", "e">> >>],
     [category |-> <<"b", "e", "a", "u", "t", "y">>,
      keywords |->
        << <<"c", "r", "e", "a", "m">>,
           <<"p", "e", "r", "f", "u", "m", "e">>,
           <<"c", "o", "s", "m", "e", "t", "i", "c">>,
           <<"b", "e", "a", "u", "t", "y">>, <<"s", "k", "i", "n">> >>],
     [category |-> <<"h", "o", "m", "e">>,
      keywords |->
        << <<"f", "u", "r", "n", "i", "t", "u", "r", "e">>,
           <<"d", "e", "c", "o", "r">>,
           <<"k", "i", "t", "c", "h", "e", "n">>, <<"h", "o", "m", "e">>,
           <<"g", "a", "r", "d", "e", "n">> >>] >>

\* price_keywords['budget']
budget_keywords ==
  << <<"a", "f", "f", "o", "r", "d", "a", "b", "l", "e">>,
     <<"c", "h", "e", "a", "p">>,
     <<"i", "n", "e", "x", "p", "e", "n", "s", "i", "v", "e">>,
     <<"b", "u", "d", "g", "e", "t">>, <<"v", "a", "l", "u", "e">>,
     <<"e", "c", "o", "n", "o", "m", "i", "c", "a", "l">> >>

\* price_keywords['premium']
premium_keywords ==
  << <<"e", "x", "p", "e", "n", "s", "i", "v", "e">>,
     <<"l", "u", "x", "u", "r", "y">>,
     <<"p", "r", "e", "m", "i", "u", "m">>,
     <<"h", "i", "g", "h", "-", "e", "n", "d">>,
     <<"e", "x", "c", "l", "u", "s", "i", "v", "e">>,
     <<"p", "r", "i", "c", "e", "y">> >>

\* special_features_keywords
special_features_keywords ==
  << <<"w", "a", "t", "e", "r", "p", "r", "o", "o", "f">>,
     <<"l", "e", "d">>, <<"l", "i", "g", "h", "t", "-", "u", "p">>,
     <<"a", "d", "j", "u", "s", "t", "a", "b", "l", "e">>,
     <<"c", "u", "s", "h", "i", "o", "n", "e", "d">>,
     <<"b", "r", "e", "a", "t", "h", "a", "b", "l", "e">>,
     <<"d", "u", "r", "a", "b", "l", "e">>,
     <<"p", "r", "e", "m", "i", "u", "m">>,
     <<"g", "e", "n", "u", "i", "n", "e">>,
     <<"s", "u", "s", "t", "a", "i", "n", "a", "b", "l", "e">>,
     <<"e", "c", "o", "-", "f", "r", "i", "e", "n", "d", "l", "y">>,
     <<"r", "e", "c", "y", "c", "l", "a", "b", "l", "e">>,
     <<"w", "a", "s", "h", "a", "b", "l", "e">>,
     <<"f", "o", "l", "d", "a", "b", "l", "e">>,
     <<"p", "o", "r", "t", "a", "b", "l", "e">> >>

\* clean_text(text): lower case, no punctuation, split at white space, no
\* stopword; [] for None and for the empty text
clean_text(text) ==
  IF text.none \/ text.val = <<>> THEN <<>>
  ELSE SelectSeq(split(SelectSeq(Lower(text.val),
                                 LAMBDA c : c \notin Punctuation)),
                 LAMBDA token : token \notin stopwords)

\* the fields a method reads with doc.get
url_of(doc) == get(doc, "url", <<>>)
title_of(doc) == get(doc, "title", <<>>)
description_of(doc) == get(doc, "description", <<>>)
features_of(doc) == get(doc, "product_features", <<>>)
reviews_of(doc) == get(doc, "product_reviews", <<>>)

\* "str(value).strip()" of the value found in the features, "" for None
stripped(found) == IF found.none THEN <<>> ELSE strip(found.val)

\* "if key not in index ... append(url)" under "if key:", the key
\* normalized by lower().strip()
add_normalized(index, key, url) ==
  IF key = <<>> THEN index ELSE add_url(index, strip(Lower(key)), url)

\* ---- create_brand_index ----
brand_keywords == << <<"b", "r", "a", "n", "d">> >>

\* "brand = title_tokens[0].title()" when the title has a token
title_brand(title_tokens) ==
  IF title_tokens # <<>> THEN title(title_tokens[1]) ELSE <<>>

\* the brand of a document: that of its features, else that of its title
brand_of(brand, doc) ==
  IF brand # <<>> THEN brand ELSE title_brand(clean_text(title_of(doc)))

\* the body of the loop over the documents
brand_step(index, doc) ==
  add_normalized(index,
                 brand_of(stripped(first_value(features_of(doc).val,
                                               brand_keywords)), doc),
                 url_of(doc).val)

RECURSIVE brand_loop(_, _)
brand_loop(index, docs) ==
  IF docs = <<>> THEN index
  ELSE brand_loop(brand_step(index, Head(docs)), Tail(docs))

\* create_brand_index(documents); features.items() raises on None
create_brand_index(docs) ==
  IF \E i \in DOMAIN docs : features_of(docs[i]).none
  THEN RaisedError
  ELSE Returned(sort_urls(brand_loop(EmptyDict, docs)))

\* ---- create_origin_index ----
origin_keywords ==
  << <<"o", "r", "i", "g", "i", "n">>,
     <<"m", "a", "d", "e", " ", "i", "n">>,
     <<"c", "o", "u", "n", "t", "r", "y">>,
     <<"m", "a", "n", "u", "f", "a", "c", "t", "u", "r", "e", "d">>,
     <<"p", "r", "o", "d", "u", "c", "e", "d">> >>

made_in == <<"m", "a", "d", "e", " ", "i", "n">>

\* the last position of the run of characters of class that starts at i
\* (i - 1 when the run is empty)
RECURSIVE run_end(_, _, _)
run_end(s, class, i) ==
  IF i > Len(s) \/ s[i] \notin class THEN i - 1
  ELSE run_end(s, class, i + 1)

\* re.search(r'made in\s+([a-zA-Z\s]+)', text) from position i on: the
\* group(1).strip() of the leftmost match, or None.  After "made in" the
\* match needs a white space and one more character of the class; \s+
\* gives back what the group needs, and strip() removes the white space
\* at both ends of the run whichever way it was shared.
RECURSIVE made_in_search(_, _)
made_in_search(text, i) ==
  IF i + Len(made_in) - 1 > Len(text) THEN PyNone
  ELSE IF /\ SubSeq(text, i, i + Len(made_in) - 1) = made_in
          /\ i + Len(made_in) <= Len(text)
          /\ text[i + Len(made_in)] \in Whitespace
          /\ run_end(text, Letters \cup Whitespace, i + Len(made_in))
               > i + Len(made_in)
  THEN Py(strip(SubSeq(text, i + Len(made_in),
                       run_end(text, Letters \cup Whitespace,
                               i + Len(made_in)))))
  ELSE made_in_search(text, i + 1)

\* the origin of a document: that of its features, else that of its
\* description
origin_of(origin, doc) ==
  IF origin # <<>> THEN origin
  ELSE stripped(made_in_search(Lower(description_of(doc).val), 1))

origin_step(index, doc) ==
  add_normalized(index,
                 origin_of(stripped(first_value(features_of(doc).val,
                                                origin_keywords)), doc),
                 url_of(doc).val)

RECURSIVE origin_loop(_, _)
origin_loop(index, docs) ==
  IF docs = <<>> THEN index
  ELSE origin_loop(origin_step(index, Head(docs)), Tail(docs))

\* the document makes create_origin_index raise: features.items() on None,
\* or description.lower() on None when the features give no origin
origin_raises(doc) ==
  \/ features_of(doc).none
  \/ /\ stripped(first_value(features_of(doc).val, origin_keywords)) = <<>>
     /\ description_of(doc).none

\* create_origin_index(documents)
create_origin_index(docs) ==
  IF \E i \in DOMAIN docs : origin_raises(docs[i])
  THEN RaisedError
  ELSE Returned(sort_urls(origin_loop(EmptyDict, docs)))

\* ---- create_title_position_index, create_description_position_index ----
\* "index[token][url].append(position)" with the two "not in" tests
add_position(index, token, url, position) ==
  IF token \notin DOMAIN index
  THEN index @@ (token :> (url :> <<position>>))
  ELSE IF url \notin DOMAIN index[token]
  THEN [index EXCEPT ![token] = @ @@ (url :> <<position>>)]
  ELSE [index EXCEPT ![token][url] = Append(@, position)]

\* "for position, token in enumerate(tokens)" from position on
RECURSIVE add_positions(_, _, _, _)
add_positions(index, tokens, url, position) ==
  IF tokens = <<>> THEN index
  ELSE add_positions(add_position(index, Head(tokens), url, position),
                     Tail(tokens), url, position + 1)

RECURSIVE title_loop(_, _)
title_loop(index, docs) ==
  IF docs = <<>> THEN index
  ELSE title_loop(add_positions(index,
                                clean_text(title_of(Head(docs))),
                                url_of(Head(docs)).val, 0),
                  Tail(docs))

\* create_title_position_index(documents)
create_title_position_index(docs) ==
  Returned(title_loop(EmptyDict, docs))

RECURSIVE description_loop(_, _)
description_loop(index, docs) ==
  IF docs = <<>> THEN index
  ELSE description_loop(
         add_positions(index, clean_text(description_of(Head(docs))),
                       url_of(Head(docs)).val, 0),
         Tail(docs))

\* create_description_position_index(documents)
create_description_position_index(docs) ==
  Returned(description_loop(EmptyDict, docs))

\* ---- create_reviews_index ----
\* index[key] = value
set_item(index, key, value) ==
  IF key \in DOMAIN index THEN [index EXCEPT ![key] = value]
  ELSE index @@ (key :> value)

\* sum(review.get('rating', 0) for review in reviews)
RECURSIVE total_rating(_)
total_rating(reviews) ==
  IF reviews = <<>> THEN 0
  ELSE get(Head(reviews), "rating", 0).val + total_rating(Tail(reviews))

\* round(total_rating / total_reviews, 2) in hundredths, half rounded up
\* (exact for the ratings of the model, whose averages have one decimal)
average_rating(total, total_reviews) ==
  (200 * total + total_reviews) \div (2 * total_reviews)

\* sorted(reviews, key=date, reverse=True)[0]: the first review of the list
\* among those of the greatest date
RECURSIVE latest(_, _)
latest(best, reviews) ==
  IF reviews = <<>> THEN best
  ELSE IF StrLess(get(best, "date", <<>>).val,
                  get(Head(reviews), "date", <<>>).val)
  THEN latest(Head(reviews), Tail(reviews))
  ELSE latest(best, Tail(reviews))

\* the entry of a document that has reviews
review_stats(reviews) ==
  [total_reviews |-> Len(reviews),
   average_rating |-> average_rating(total_rating(reviews), Len(reviews)),
   latest_rating |-> get(latest(Head(reviews), Tail(reviews)),
                         "rating", 0).val]

\* the body of the loop over the documents: "if reviews:" is false for
\* None and for the empty list
reviews_step(index, reviews, url) ==
  IF reviews.none \/ reviews.val = <<>> THEN index
  ELSE set_item(index, url, review_stats(reviews.val))

RECURSIVE reviews_loop(_, _)
reviews_loop(index, docs) ==
  IF docs = <<>> THEN index
  ELSE reviews_loop(reviews_step(index, reviews_of(Head(docs)),
                                 url_of(Head(docs)).val),
                    Tail(docs))

\* create_reviews_index(documents)
create_reviews_index(docs) ==
  Returned(reviews_loop(EmptyDict, docs))

\* ---- create_material_index ----
material_keywords == << <<"m", "a", "t", "e", "r", "i", "a", "l">> >>

RECURSIVE material_loop(_, _)
material_loop(index, docs) ==
  IF docs = <<>> THEN index
  ELSE material_loop(
         add_normalized(index,
                        stripped(first_value(features_of(Head(docs)).val,
                                             material_keywords)),
                        url_of(Head(docs)).val),
         Tail(docs))

\* create_material_index(documents); features.items() raises on None
create_material_index(docs) ==
  IF \E i \in DOMAIN docs : features_of(docs[i]).none
  THEN RaisedError
  ELSE Returned(sort_urls(material_loop(EmptyDict, docs)))

\* ---- create_size_index ----
\* 'size' is in every key that 'sizes' is in
size_key_keywords == << <<"s", "i", "z", "e">> >>

S_and == <<"a", "n", "d">>

\* re.split(r'[,|/]|and', text), part being the part read so far
RECURSIVE re_split(_, _)
re_split(text, part) ==
  IF text = <<>> THEN <<part>>
  ELSE IF Head(text) \in {",", "|", "/"}
  THEN <<part>> \o re_split(Tail(text), <<>>)
  ELSE IF StartsWith(text, S_and)
  THEN <<part>> \o re_split(From(text, Len(S_and) + 1), <<>>)
  ELSE re_split(Tail(text), Append(part, Head(text)))

\* "clean_size = part.strip().lower(); if clean_size: sizes.append(...)"
clean_sizes(size_parts) ==
  SelectSeq([i \in DOMAIN size_parts |-> Lower(strip(size_parts[i]))],
            LAMBDA clean_size : clean_size # <<>>)

\* the sizes that the features give
feature_sizes(found) ==
  IF found.none THEN <<>> ELSE clean_sizes(re_split(strip(found.val), <<>>))

S_variant == <<"v", "a", "r", "i", "a", "n", "t", "=">>

VariantChars == Letters \cup DigitSet \cup {"-"}

\* re.search(r'variant=([a-zA-Z0-9-]+)', url) from position i on: group(1)
\* of the leftmost match, or None
RECURSIVE variant_search(_, _)
variant_search(url, i) ==
  IF i + Len(S_variant) > Len(url) THEN PyNone
  ELSE IF /\ SubSeq(url, i, i + Len(S_variant) - 1) = S_variant
          /\ url[i + Len(S_variant)] \in VariantChars
  THEN Py(SubSeq(url, i + Len(S_variant),
                 run_end(url, VariantChars, i + Len(S_variant))))
  ELSE variant_search(url, i + 1)

\* the keywords of the list that the variant of the URL contains
variant_keywords(variant, keywords) ==
  IF variant.none THEN <<>> ELSE Found(Lower(variant.val), keywords)

RECURSIVE size_loop(_, _)
size_loop(index, docs) ==
  IF docs = <<>> THEN index
  ELSE size_loop(
         add_urls(index,
                  feature_sizes(first_value(features_of(Head(docs)).val,
                                            size_key_keywords))
                    \o variant_keywords(
                         variant_search(url_of(Head(docs)).val, 1),
                         size_keywords),
                  url_of(Head(docs)).val),
         Tail(docs))

\* create_size_index(documents); features.items() and "'variant=' in url"
\* raise on None
create_size_index(docs) ==
  IF \E i \in DOMAIN docs :
       features_of(docs[i]).none \/ url_of(docs[i]).none
  THEN RaisedError
  ELSE Returned(sort_urls(size_loop(EmptyDict, docs)))

\* ---- create_color_index ----
\* 'color' and 'flavor' are in every key that 'colors' and 'flavors' are in
color_key_keywords ==
  << <<"c", "o", "l", "o", "r">>, <<"f", "l", "a", "v", "o", "r">> >>

\* the colors that the features give: those of every key that matches
RECURSIVE feature_colors(_)
feature_colors(features) ==
  IF features = <<>> THEN <<>>
  ELSE (IF ContainsAny(Lower(Head(features)[1]), color_key_keywords)
        THEN Found(Lower(strip(Head(features)[2])), common_colors)
        ELSE <<>>)
       \o feature_colors(Tail(features))

RECURSIVE color_loop(_, _)
color_loop(index, docs) ==
  IF docs = <<>> THEN index
  ELSE color_loop(
         add_urls(index,
                  feature_colors(features_of(Head(docs)).val)
                    \o variant_keywords(
                         variant_search(url_of(Head(docs)).val, 1),
                         common_colors),
                  url_of(Head(docs)).val),
         Tail(docs))

\* create_color_index(documents)
create_color_index(docs) ==
  IF \E i \in DOMAIN docs :
       features_of(docs[i]).none \/ url_of(docs[i]).none
  THEN RaisedError
  ELSE Returned(sort_urls(color_loop(EmptyDict, docs)))

\* ---- create_category_index ----
S_other == <<"o", "t", "h", "e", "r">>

\* "if keyword in title or keyword in description" for a keyword of the list
in_category(keywords, title_text, description) ==
  \E i \in DOMAIN keywords :
    Contains(title_text, keywords[i]) \/ Contains(description, keywords[i])

\* categories_found of a document, 'other' when there is none
RECURSIVE categories_found(_, _, _)
categories_found(categories, title_text, description) ==
  IF categories = <<>> THEN <<>>
  ELSE (IF in_category(Head(categories).keywords, title_text, description)
        THEN <<Head(categories).category>> ELSE <<>>)
       \o categories_found(Tail(categories), title_text, description)

or_other(found) == IF found = <<>> THEN <<S_other>> ELSE found

RECURSIVE category_loop(_, _)
category_loop(index, docs) ==
  IF docs = <<>> THEN index
  ELSE category_loop(
         add_urls(index,
                  or_other(categories_found(
                             category_keywords,
                             Lower(title_of(Head(docs)).val),
                             Lower(description_of(Head(docs)).val))),
                  url_of(Head(docs)).val),
         Tail(docs))

\* create_category_index(documents); title.lower() and description.lower()
\* raise on None
create_category_index(docs) ==
  IF \E i \in DOMAIN docs :
       title_of(docs[i]).none \/ description_of(docs[i]).none
  THEN RaisedError
  ELSE Returned(sort_urls(category_loop(EmptyDict, docs)))

\* ---- create_price_range_index ----
S_budget == <<"b", "u", "d", "g", "e", "t">>
S_midrange == <<"m", "i", "d", "r", "a", "n", "g", "e">>
S_premium == <<"p", "r", "e", "m", "i", "u", "m">>

\* price_index before the loop
EmptyPriceIndex ==
  (S_budget :> <<>>) @@ (S_midrange :> <<>>) @@ (S_premium :> <<>>)

\* "for review in reviews: all_text += ' ' + review.get('text', '').lower()"
RECURSIVE review_text(_)
review_text(reviews) ==
  IF reviews = <<>> THEN <<>>
  ELSE <<" ">> \o Lower(get(Head(reviews), "text", <<>>).val)
       \o review_text(Tail(reviews))

\* price_range of a text: budget before premium, midrange by default
price_range(all_text) ==
  IF ContainsAny(all_text, budget_keywords) THEN S_budget
  ELSE IF ContainsAny(all_text, premium_keywords) THEN S_premium
  ELSE S_midrange

RECURSIVE price_loop(_, _)
price_loop(index, docs) ==
  IF docs = <<>> THEN index
  ELSE price_loop(
         add_url(index,
                 price_range(Lower(description_of(Head(docs)).val)
                             \o review_text(reviews_of(Head(docs)).val)),
                 url_of(Head(docs)).val),
         Tail(docs))

\* create_price_range_index(documents); description.lower() and the loop
\* over reviews raise on None
create_price_range_index(docs) ==
  IF \E i \in DOMAIN docs :
       description_of(docs[i]).none \/ reviews_of(docs[i]).none
  THEN RaisedError
  ELSE Returned(sort_urls(price_loop(EmptyPriceIndex, docs)))

\* ---- create_features_index ----
\* "for key, value in features.items(): all_features_text += ' ' +
\* str(value).lower()"
RECURSIVE features_text(_)
features_text(features) ==
  IF features = <<>> THEN <<>>
  ELSE <<" ">> \o Lower(Head(features)[2]) \o features_text(Tail(features))

\* the first position i of words with feature in words[i] that is not the
\* last position, 0 when there is none
RECURSIVE feature_word(_, _, _)
feature_word(words, feature, i) ==
  IF i >= Len(words) THEN 0
  ELSE IF Contains(words[i], feature) THEN i
  ELSE feature_word(words, feature, i + 1)

Max(a, b) == IF a > b THEN a ELSE b
Min(a, b) == IF a < b THEN a ELSE b

\* feature_phrase: the word before, the word and the word after, or the
\* feature alone
feature_phrase(words, feature, i) ==
  IF i = 0 THEN feature
  ELSE Join(SubSeq(words, Max(1, i - 1), Min(Len(words), i + 1)), " ")

\* the phrases of the special features that the text holds
feature_phrases(all_features_text, features) ==
  [k \in DOMAIN features |->
     feature_phrase(split(all_features_text), features[k],
                    feature_word(split(all_features_text), features[k], 1))]

RECURSIVE features_loop(_, _)
features_loop(index, docs) ==
  IF docs = <<>> THEN index
  ELSE features_loop(
         add_urls(index,
                  feature_phrases(
                    features_text(features_of(Head(docs)).val)
                      \o <<" ">>
                      \o Lower(description_of(Head(docs)).val),
                    Found(features_text(features_of(Head(docs)).val)
                            \o <<" ">>
                            \o Lower(description_of(Head(docs)).val),
                          special_features_keywords)),
                  url_of(Head(docs)).val),
         Tail(docs))

\* create_features_index(documents); features.items() and
\* description.lower() raise on None
create_features_index(docs) ==
  IF \E i \in DOMAIN docs :
       features_of(docs[i]).none \/ description_of(docs[i]).none
  THEN RaisedError
  ELSE Returned(sort_urls(features_loop(EmptyDict, docs)))


(***************************************************************************)
(* The indexer's main(): parse_jsonl gives the documents, then the eleven  *)
(* indexes are built in the order of the calls, each one saved under its   *)
(* name once it is returned.  An exception of a method ends main() in its  *)
(* handler.  The indexer is a program of its own: while it runs, the       *)
(* crawler's variables keep the values of a crawler that was never         *)
(* started.                                                                *)
(***************************************************************************)
\* the titles of extract_content: its default and a title it read
T_default ==
  <<"S", "a", "n", "s", " ", "t", "i", "t", "r", "e">>
T_kitchen ==
  <<"T", "h", "e", " ", "K", "i", "t", "c", "h", "e", "n", " ", "S", "h",
  "o", "p", "!">>

\* first paragraphs: none, and one that reads like a description
P_made ==
  <<"M", "a", "d", "e", " ", "i", "n", " ", "F", "r", "a", "n", "c", "e",
  ",", " ", "c", "h", "e", "a", "p", " ", "a", "n", "d", " ", "d", "u", "r",
  "a", "b", "l", "e">>

L_default ==
  <<"L", "i", "e", "n", " ", "s", "a", "n", "s", " ", "t", "e", "x", "t",
  "e">>

\* a page URL with a query
U_variant ==
  U_p \o <<"?", "v", "a", "r", "i", "a", "n", "t", "=", "r", "e", "d", "-",
         "s", "m", "a", "l", "l">>

T_box ==
  <<"B", "o", "x", " ", "o", "f", " ", "c", "h", "o", "c", "o", "l", "a",
  "t", "e">>
Desc_box ==
  <<"A", " ", "c", "h", "e", "a", "p", " ", "b", "o", "x", ".", " ", "M",
  "a", "d", "e", " ", "i", "n", " ", " ", "I", "t", "a", "l", "y", ",", " ",
  "d", "u", "r", "a", "b", "l", "e", " ", "a", "n", "d", " ", "e", "c", "o",
  "-", "f", "r", "i", "e", "n", "d", "l", "y", " ", "d", "e", "s", "i", "g",
  "n">>
F_brand ==
  <<"B", "r", "a", "n", "d">>
V_brand ==
  <<" ", "A", "c", "m", "e", " ">>
F_material ==
  <<"M", "a", "t", "e", "r", "i", "a", "l">>
V_material ==
  <<"L", "e", "a", "t", "h", "e", "r">>
F_sizes ==
  <<"S", "i", "z", "e", "s">>
V_sizes ==
  <<"S", ",", " ", "M", " ", "a", "n", "d", " ", "L", "/", "X", "L">>
F_colors ==
  <<"C", "o", "l", "o", "r", "s">>
V_colors ==
  <<"R", "e", "d", " ", "a", "n", "d", " ", "d", "a", "r", "k", " ", "b",
  "l", "u", "e">>
F_made_in ==
  <<"m", "a", "d", "e", " ", "i", "n">>
V_made_in ==
  <<"F", "r", "a", "n", "c", "e">>
Date_jan ==
  <<"2", "0", "2", "4", "-", "0", "1", "-", "0", "2">>
Date_mar ==
  <<"2", "0", "2", "4", "-", "0", "3", "-", "0", "1">>
R_value ==
  <<"G", "o", "o", "d", " ", "v", "a", "l", "u", "e">>
R_luxury ==
  <<"L", "u", "x", "u", "r", "y">>
R_x ==
  <<"x">>

\* the dict that extract_content returns and save_results writes
Page(title_text, url, first_paragraph, links) ==
  [title |-> title_text, url |-> url, first_paragraph |-> first_paragraph,
   links |-> links]

\* pages of the crawler: with and without a title, a paragraph, a link and a
\* query
CrawlerDocs ==
  {Page(T_default, U_root, <<>>, <<>>),
   Page(T_kitchen, U_a, P_made, <<[url |-> U_root, text |-> L_default]>>),
   Page(T_kitchen, U_variant, <<>>, <<>>),
   Page(T_default, U_variant, P_made, <<>>)}

\* a document of products.jsonl, with its description, features and reviews
ProductDoc ==
  [title |-> T_box, url |-> U_product1, description |-> Desc_box,
   product_features |->
     << <<F_brand, V_brand>>, <<F_material, V_material>>,
        <<F_sizes, V_sizes>>, <<F_colors, V_colors>>,
        <<F_made_in, V_made_in>> >>,
   product_reviews |->
     <<[rating |-> 4, date |-> Date_jan, text |-> R_value],
       [rating |-> 5, date |-> Date_mar, text |-> R_luxury],
       [rating |-> 1, date |-> Date_mar, text |-> R_x]>>]

IndexDocs == CrawlerDocs \cup {ProductDoc}

\* what parse_jsonl can return: at most MaxDocs documents
Parsed == UNION {[1..n -> IndexDocs] : n \in 0..MaxDocs}

\* the names under which main() saves the indexes, in the order of its calls
IndexNames ==
  <<"brand_index", "origin_index", "title_index", "description_index",
    "reviews_index", "material_index", "size_index", "color_index",
    "category_index", "price_index", "features_index">>

InitIndex ==
  /\ pc = "INDEXING"
  /\ documents \in Parsed
  /\ indexes = <<>>
  /\ start_url = U_root
  /\ base_domain = urlparse(start_url, <<>>).netloc
  /\ max_pages = 1
  /\ url_queue = <<>>
  /\ visited_urls = {}
  /\ results = <<>>
  /\ pages_crawled = 0
  /\ robots_txt_loaded = FALSE
  /\ robot_rules = <<>>
  /\ requests = <<>>
  /\ extracted = <<>>
  /\ dequeued = <<>>
  /\ enqueued = {}
  /\ saved = "none"
  /\ calls = <<>>
  /\ received = NoResponse
  /\ events = <<>>
  /\ written = FALSE
  /\ html_bytes = <<>>
  /\ html_text = <<>>
  /\ soup = <<>>
  /\ page = <<>>

\* the k-th call of main(): the method raises and main() ends in its
\* handler, or it returns the index, which is saved under its name; the
\* last call ends main()
Build(k, result) ==
  /\ pc = "INDEXING"
  /\ Len(indexes) = k - 1
  /\ IF result.raised
     THEN pc' = "INDEX_FAILED" /\ indexes' = indexes
     ELSE /\ pc' = IF k = Len(IndexNames) THEN "INDEXED" ELSE "INDEXING"
          /\ indexes' = Append(indexes, [name |-> IndexNames[k],
                                         index |-> result.index])
  /\ UNCHANGED <<documents, start_url, base_domain, max_pages, url_queue,
                 visited_urls, results, pages_crawled, robots_txt_loaded,
                 robot_rules, requests, extracted, dequeued, enqueued, saved,
                 calls, received, events, written, html_bytes, html_text,
                 soup, page>>

CreateBrandIndex == Build(1, create_brand_index(documents))
CreateOriginIndex == Build(2, create_origin_index(documents))
CreateTitleIndex == Build(3, create_title_position_index(documents))
CreateDescriptionIndex ==
  Build(4, create_description_position_index(documents))
CreateReviewsIndex == Build(5, create_reviews_index(documents))
CreateMaterialIndex == Build(6, create_material_index(documents))
CreateSizeIndex == Build(7, create_size_index(documents))
CreateColorIndex == Build(8, create_color_index(documents))
CreateCategoryIndex == Build(9, create_category_index(documents))
CreatePriceIndex == Build(10, create_price_range_index(documents))
CreateFeaturesIndex == Build(11, create_features_index(documents))

NextIndex ==
  \/ CreateBrandIndex
  \/ CreateOriginIndex
  \/ CreateTitleIndex
  \/ CreateDescriptionIndex
  \/ CreateReviewsIndex
  \/ CreateMaterialIndex
  \/ CreateSizeIndex
  \/ CreateColorIndex
  \/ CreateCategoryIndex
  \/ CreatePriceIndex
  \/ CreateFeaturesIndex

SpecIndex == InitIndex /\ [][NextIndex]_vars
(***************************************************************************)
(* The decoding of a response body in make_request (lines 96-107): bytes   *)
(* are integers of 0..255, a text is the sequence of its code points.      *)
(***************************************************************************)
\* what bytes.decode gives: the text, or UnicodeDecodeError
Decoded(text) == [raised |-> FALSE, text |-> text]
DecodeError == [raised |-> TRUE, text |-> <<>>]

\* the length of the UTF-8 sequence that the byte starts, 0 for a byte that
\* starts none
utf8_len(b) ==
  IF b < 128 THEN 1
  ELSE IF b \in 194..223 THEN 2
  ELSE IF b \in 224..239 THEN 3
  ELSE IF b \in 240..244 THEN 4
  ELSE 0

\* the bytes that may follow k bytes of a sequence started by lead
utf8_next(lead, k) ==
  IF k > 1 THEN 128..191
  ELSE IF lead = 224 THEN 160..191
  ELSE IF lead = 237 THEN 128..159
  ELSE IF lead = 240 THEN 144..191
  ELSE IF lead = 244 THEN 128..143
  ELSE 128..191

\* how many bytes at the head of bytes are the start of a sequence of n
\* bytes, k of them being known to be
RECURSIVE utf8_prefix(_, _, _)
utf8_prefix(bytes, k, n) ==
  IF k = n \/ k = Len(bytes) THEN k
  ELSE IF bytes[k + 1] \in utf8_next(bytes[1], k)
  THEN utf8_prefix(bytes, k + 1, n)
  ELSE k

\* the code point of the sequence of n bytes at the head of bytes
utf8_point(bytes, n) ==
  IF n = 1 THEN bytes[1]
  ELSE IF n = 2 THEN (bytes[1] - 192) * 64 + (bytes[2] - 128)
  ELSE IF n = 3
  THEN (bytes[1] - 224) * 4096 + (bytes[2] - 128) * 64 + (bytes[3] - 128)
  ELSE (bytes[1] - 240) * 262144 + (bytes[2] - 128) * 4096
       + (bytes[3] - 128) * 64 + (bytes[4] - 128)

\* text then the text of a decoding, an error staying one
Then(text, decoding) ==
  IF decoding.raised THEN decoding ELSE Decoded(text \o decoding.text)

\* what the error handler puts in place of a maximal ill-formed run of bytes
Replacement(errors) == IF errors = "replace" THEN <<65533>> ELSE <<>>

\* html_bytes.decode('utf-8', errors=errors): errors is "strict", or
\* "ignore", which drops every maximal ill-formed run of bytes, or
\* "replace", which puts U+FFFD in its place
RECURSIVE decode_utf8(_, _)
RECURSIVE decode_utf8_head(_, _, _, _)
decode_utf8(bytes, errors) ==
  IF bytes = <<>> THEN Decoded(<<>>)
  ELSE IF utf8_len(bytes[1]) = 0
  THEN (IF errors = "strict" THEN DecodeError
        ELSE Then(Replacement(errors), decode_utf8(Tail(bytes), errors)))
  ELSE decode_utf8_head(bytes, errors, utf8_len(bytes[1]),
                        utf8_prefix(bytes, 1, utf8_len(bytes[1])))

\* the same when the first byte starts a sequence of n bytes of which p are
\* there
decode_utf8_head(bytes, errors, n, p) ==
  IF p = n
  THEN Then(<<utf8_point(bytes, n)>>,
            decode_utf8(SubSeq(bytes, n + 1, Len(bytes)), errors))
  ELSE IF errors = "strict" THEN DecodeError
  ELSE Then(Replacement(errors),
            decode_utf8(SubSeq(bytes, p + 1, Len(bytes)), errors))

\* html_bytes.decode('iso-8859-1'): every byte is its code point
decode_latin1(bytes) == Decoded(bytes)

\* the code points of windows-1252 for 128..159, five bytes having none
cp1252 ==
  (128 :> 8364) @@ (130 :> 8218) @@ (131 :> 402) @@ (132 :> 8222) @@ (133 :>
  8230) @@ (134 :> 8224) @@ (135 :> 8225) @@ (136 :> 710) @@ (137 :> 8240)
  @@ (138 :> 352) @@ (139 :> 8249) @@ (140 :> 338) @@ (142 :> 381) @@ (145
  :> 8216) @@ (146 :> 8217) @@ (147 :> 8220) @@ (148 :> 8221) @@ (149 :>
  8226) @@ (150 :> 8211) @@ (151 :> 8212) @@ (152 :> 732) @@ (153 :> 8482)
  @@ (154 :> 353) @@ (155 :> 8250) @@ (156 :> 339) @@ (158 :> 382) @@ (159
  :> 376)

\* html_bytes.decode('windows-1252')
decode_cp1252(bytes) ==
  IF \E i \in DOMAIN bytes : bytes[i] \in 128..159 \ DOMAIN cp1252
  THEN DecodeError
  ELSE Decoded([i \in DOMAIN bytes |->
                  IF bytes[i] \in DOMAIN cp1252 THEN cp1252[bytes[i]]
                  ELSE bytes[i]])

\* html_bytes.decode(encoding)
decode(bytes, encoding) ==
  IF encoding = "utf-8" THEN decode_utf8(bytes, "strict")
  ELSE IF encoding = "iso-8859-1" THEN decode_latin1(bytes)
  ELSE decode_cp1252(bytes)

\* a list that tries iso-8859-1 first
encodings_latin1first == <<"iso-8859-1", "utf-8", "windows-1252">>

\* encodings
encodings == <<"utf-8", "iso-8859-1", "windows-1252">>

\* "for encoding in encodings: try: return html_bytes.decode(encoding)
\* except UnicodeDecodeError: continue", then the return after the loop
RECURSIVE decode_loop(_, _)
decode_loop(bytes, list) ==
  IF list = <<>> THEN decode_utf8(bytes, "ignore").text
  ELSE IF decode(bytes, Head(list)).raised
  THEN decode_loop(bytes, Tail(list))
  ELSE decode(bytes, Head(list)).text

\* what make_request returns for the body html_bytes of an HTML answer
decode_body(bytes) == decode_loop(bytes, encodings)

\* the bytes of the bodies: A, the two bytes of the UTF-8 form of U+00E9,
\* the byte of U+00E9 in iso-8859-1 (in UTF-8 the first of three bytes) and a
\* byte that windows-1252 does not define (in UTF-8 a continuation byte)
ByteValues == {65, 195, 169, 233, 129}

\* what response.read() can give: at most MaxBytes bytes
Bodies == UNION {[1..n -> ByteValues] : n \in 0..MaxBytes}

\* a crawler that was built and not started
CrawlerIdle ==
  /\ start_url = U_root
  /\ base_domain = urlparse(start_url, <<>>).netloc
  /\ max_pages = 1
  /\ url_queue = <<>>
  /\ visited_urls = {}
  /\ results = <<>>
  /\ pages_crawled = 0
  /\ robots_txt_loaded = FALSE
  /\ robot_rules = <<>>
  /\ requests = <<>>
  /\ extracted = <<>>
  /\ dequeued = <<>>
  /\ enqueued = {}
  /\ saved = "none"
  /\ calls = <<>>
  /\ received = NoResponse
  /\ events = <<>>
  /\ written = FALSE
  /\ documents = <<>>
  /\ indexes = <<>>

\* make_request at line 96: the answer is HTML and its body was read
InitDecode ==
  /\ pc = "READ"
  /\ html_bytes \in Bodies
  /\ html_text = <<>>
  /\ soup = <<>>
  /\ page = <<>>
  /\ CrawlerIdle

\* lines 98-107: make_request returns the text of the body
ReturnText ==
  /\ pc = "READ"
  /\ html_text' = decode_body(html_bytes)
  /\ pc' = "RETURNED"
  /\ UNCHANGED <<start_url, base_domain, max_pages, url_queue, visited_urls,
                 results, pages_crawled, robots_txt_loaded, robot_rules,
                 requests, extracted, dequeued, enqueued, saved, calls,
                 received, events, written, documents, indexes, html_bytes,
                 soup, page>>

SpecDecode == InitDecode /\ [][ReturnText]_vars

(***************************************************************************)
(* extract_content in full (lines 119-177): the title, the first paragraph *)
(* and the links of a parsed document.  The crawl above keeps of a         *)
(* document the hrefs of the anchors that body.find_all gives.             *)
(***************************************************************************)
\* paragraph texts: blank; short; of 20 characters; of 21 characters between
\* blanks; of 19 characters and 21 with its blanks; longer
P_blank ==
  <<" ", " ">>
P_short ==
  <<"S", "h", "o", "r", "t", ".">>
P_twenty ==
  <<"T", "w", "e", "n", "t", "y", " ", "c", "h", "a", "r", "a", "c", "t",
  "e", "r", "s", " ", "o", "k">>
P_long ==
  <<" ", " ", "A", " ", "p", "a", "r", "a", "g", "r", "a", "p", "h", " ",
  "o", "f", " ", " ", "t", "e", "x", "t", ".", " ", " ">>
P_padded ==
  <<" ", "N", "i", "n", "e", "t", "e", "e", "n", " ", "c", "h", "a", "r",
  "s", " ", "h", "e", "r", "e", " ">>
P_other ==
  <<"A", "n", "o", "t", "h", "e", "r", " ", "p", "a", "r", "a", "g", "r",
  "a", "p", "h", ",", " ", "l", "o", "n", "g", "e", "r", " ", "t", "h", "a",
  "n", " ", "t", "h", "e", " ", "o", "t", "h", "e", "r", "s", ".">>

\* the text of a title tag, between blanks
T_spaced ==
  <<" ", "T", "h", "e", " ", "K", "i", "t", "c", "h", "e", "n", " ", "S",
  "h", "o", "p", "!", " ">>

\* hrefs that extract_content skips
H_mailto ==
  <<"m", "a", "i", "l", "t", "o", ":", "a", "@", "e", "x", "a", "m", "p",
  "l", "e", ".", "t", "e", "s", "t">>
H_javascript ==
  <<"j", "a", "v", "a", "s", "c", "r", "i", "p", "t", ":", "v", "o", "i",
  "d", "(", "0", ")">>
H_tel ==
  <<"t", "e", "l", ":", "1", "1", "2">>
H_top ==
  <<"#", "t", "o", "p">>

\* a tag "a": its href attribute if it has one, and whether it is inside the
\* body tag
Anchor(href, in_body) == [href |-> href, in_body |-> in_body]

\* a parsed document: the text of its title tag if it has one, the texts of
\* its "p" tags and its "a" tags in document order, and whether it has a
\* body tag
Soup(title_tag, paragraphs, body, anchors) ==
  [title |-> title_tag, paragraphs |-> paragraphs, body |-> body,
   anchors |-> anchors]

\* "title_tag.text.strip() if title_tag else 'Sans titre'"
title_text(title_tag) ==
  IF title_tag.none THEN T_default ELSE strip(title_tag.val)

\* a loop that tests the length of the text before it is trimmed
RECURSIVE first_long_untrimmed(_)
first_long_untrimmed(paragraphs) ==
  IF paragraphs = <<>> THEN <<>>
  ELSE IF strip(Head(paragraphs)) # <<>> /\ Len(Head(paragraphs)) > 20
  THEN strip(Head(paragraphs))
  ELSE first_long_untrimmed(Tail(paragraphs))

\* "for p in soup.find_all('p'): text = p.text.strip(); if text and
\* len(text) > 20: first_paragraph = text; break", "" when no p does
RECURSIVE first_long(_)
first_long(paragraphs) ==
  IF paragraphs = <<>> THEN <<>>
  ELSE IF strip(Head(paragraphs)) # <<>> /\ Len(strip(Head(paragraphs))) > 20
  THEN strip(Head(paragraphs))
  ELSE first_long(Tail(paragraphs))

\* "if not first_paragraph: first_p = soup.find('p'); if first_p:
\* first_paragraph = first_p.text.strip()"
or_first(first_paragraph, paragraphs) ==
  IF first_paragraph # <<>> THEN first_paragraph
  ELSE IF paragraphs # <<>> THEN strip(paragraphs[1])
  ELSE <<>>

\* first_paragraph at line 140
first_paragraph(paragraphs) == or_first(first_long(paragraphs), paragraphs)

\* a search for the anchors in the whole document
find_all_anywhere(document) ==
  IF ~document.body THEN <<>>
  ELSE SelectSeq(document.anchors, LAMBDA a : ~a.href.none)

\* "body = soup.find('body'); if body: ... body.find_all('a', href=True)":
\* the anchors of the body that have a href, none without a body
find_all(document) ==
  IF ~document.body THEN <<>>
  ELSE SelectSeq(document.anchors, LAMBDA a : a.in_body /\ ~a.href.none)

\* link_tag['href'] of each of them
hrefs(anchors) == [i \in DOMAIN anchors |-> anchors[i].href.val]

\* extract_content(html_content, url) in full: it raises, or it returns the
\* dict of the page (the texts of its links left out)
extract(document, url) ==
  IF Raises(hrefs(find_all(document)), url) THEN RaisedError
  ELSE Returned(Page(title_text(document.title), url,
                     first_paragraph(document.paragraphs),
                     LinksOf(hrefs(find_all(document)), url)))

\* the texts of the "p" tags of a document
ParagraphTexts == {P_blank, P_short, P_twenty, P_long, P_padded, P_other}
ParagraphLists == UNION {[1..n -> ParagraphTexts] : n \in 0..MaxParagraphs}

\* its "a" tags: in the body without a href and with one that is empty, is
\* skipped for its prefix, stays on the site, has a fragment, leaves the
\* site or makes urljoin raise; outside the body with a href
Anchors ==
  {Anchor(PyNone, TRUE), Anchor(Py(H_a), FALSE)}
    \cup {Anchor(Py(href), TRUE) :
            href \in {<<>>, H_mailto, H_javascript, H_tel, H_top, H_a,
                      H_frag1, U_other, H_bad}}
AnchorLists == UNION {[1..n -> Anchors] : n \in 0..MaxAnchors}

\* the documents: those with paragraphs and those with anchors, with and
\* without a title tag; without a body tag no anchor is inside the body
Soups ==
  {Soup(title_tag, paragraphs, TRUE, <<>>) :
     title_tag \in {PyNone, Py(T_spaced)}, paragraphs \in ParagraphLists}
    \cup {Soup(PyNone, <<>>, TRUE, anchors) : anchors \in AnchorLists}
    \cup {Soup(Py(T_spaced), <<P_short>>, FALSE,
               <<Anchor(Py(H_a), FALSE), Anchor(Py(H_p), FALSE)>>)}

\* the URLs of the pages
PageUrls == {U_root, U_product1}

\* crawl() at line 241: a page was fetched and its text parsed
InitExtract ==
  /\ pc = "PARSED"
  /\ soup \in Soups
  /\ page = <<>>
  /\ html_bytes = <<>>
  /\ html_text = <<>>
  /\ CrawlerIdle

\* extract_content on the document, for a page of the site: it raises or it
\* returns the dict of the page
ExtractContent ==
  /\ pc = "PARSED"
  /\ \E url \in PageUrls :
       IF extract(soup, url).raised
       THEN pc' = "EXTRACT_RAISED" /\ page' = [url |-> url]
       ELSE pc' = "EXTRACTED" /\ page' = extract(soup, url).index
  /\ UNCHANGED <<start_url, base_domain, max_pages, url_queue, visited_urls,
                 results, pages_crawled, robots_txt_loaded, robot_rules,
                 requests, extracted, dequeued, enqueued, saved, calls,
                 received, events, written, documents, indexes, html_bytes,
                 html_text, soup>>

SpecExtract == InitExtract /\ [][ExtractContent]_vars

(***************************************************************************)
(* Properties.                                                             *)
(***************************************************************************)
Last(seq) == seq[Len(seq)]

ResultUrls == {results[i].url : i \in DOMAIN results}

Count(seq, x) == Cardinality({i \in DOMAIN seq : seq[i] = x})

Pending(url) == Cardinality({i \in DOMAIN url_queue : url_queue[i][2] = url})

Netloc(url) == urlparse(url, <<>>).netloc

Fragment(url) == urlparse(url, <<>>).fragment

\* C1: no URL is passed to make_request twice; a URL is in visited_urls when
\* its request is issued; a visited URL is never pending again, also when
\* its fetch failed or was denied.
C1_FetchedOnce ==
  /\ \A i, j \in DOMAIN requests : requests[i] = requests[j] => i = j
  /\ \A i \in DOMAIN requests : requests[i] \in visited_urls
  /\ QueueUrls(url_queue) \cap visited_urls = {}

\* a page crawled later links to a URL whose fetch had failed before
C1_Witness ==
  \E k \in DOMAIN results : \E n \in DOMAIN results[k].links :
    LET u == results[k].links[n].url
    IN  /\ u \notin ResultUrls
        /\ \E i, j \in DOMAIN requests :
             i < j /\ requests[i] = u /\ requests[j] = results[k].url

\* C2: len(results) <= max_pages and the urls of results are pairwise
\* different.
C2_ResultsBounded ==
  /\ Len(results) <= max_pages
  /\ \A i, j \in DOMAIN results : results[i].url = results[j].url => i = j

\* the budget is used up while entries are still pending
C2_Witness == Len(results) = max_pages /\ url_queue # <<>> /\ pc = "DONE"

\* C3 (on every dequeue): the entry url_queue.get() returns is one of the
\* pending entries and no pending entry is smaller by (priority, url).
C3_DequeueStep ==
  dequeued' # dequeued =>
    LET e == Last(dequeued')
    IN  /\ e \in Range(url_queue)
        /\ \A i \in DOMAIN url_queue :
             \/ e[1] < url_queue[i][1]
             \/ e[1] = url_queue[i][1] /\ ~StrLess(url_queue[i][2], e[2])

\* C3 (the example): the seed page links to product/b, product/a and c in
\* that order, which enqueues (0, b), (0, a), (1, c) on the empty frontier;
\* b is dequeued only after a and c only after b.
C3_Example ==
  (extracted # <<>> /\ extracted[1].anchors = <<H_productb, H_producta, H_c>>)
  => \A i \in DOMAIN dequeued :
       /\ dequeued[i] = <<0, U_productb>>
            => \E j \in 1..(i - 1) : dequeued[j] = <<0, U_producta>>
       /\ dequeued[i] = <<1, U_c>>
            => \E j \in 1..(i - 1) : dequeued[j] = <<0, U_productb>>

\* C3: every dequeue returns the pending entry that is minimal by priority,
\* then by URL string order, whatever the insertion order.
C3_DequeueMinimal == [][C3_DequeueStep]_vars /\ []C3_Example

\* the three entries of the example have been dequeued, in the order a, b, c
C3_Witness ==
  /\ Len(dequeued) >= 4
  /\ extracted # <<>> /\ extracted[1].anchors = <<H_productb, H_producta, H_c>>
  /\ dequeued[2] = <<0, U_producta>>
  /\ dequeued[3] = <<0, U_productb>>
  /\ dequeued[4] = <<1, U_c>>

\* the entries of a queue with their multiplicities
SameEntries(q1, q2) ==
  \A e \in Range(q1) \cup Range(q2) : Count(q1, e) = Count(q2, e)

\* C4 (one call): add_url_to_queue(url) on a visited or pending URL leaves
\* the entries of the frontier, visited_urls and results as they are; on any
\* other URL the frontier gains the one entry (get_priority(url), url).
C4_EnqueueStep ==
  calls' # calls =>
    LET url == Last(calls')
    IN  /\ visited_urls' = visited_urls
        /\ results' = results
        /\ IF url \in visited_urls \/ url \in QueueUrls(url_queue)
           THEN SameEntries(url_queue', url_queue)
                  /\ Len(url_queue') = Len(url_queue)
           ELSE /\ Len(url_queue') = Len(url_queue) + 1
                /\ Count(url_queue', <<get_priority(url), url>>) = 1
                /\ \A e \in Range(url_queue) :
                     Count(url_queue', e) = Count(url_queue, e)

\* C4: enqueue is a no-op on a visited or pending URL, otherwise it adds
\* exactly one entry.
C4_EnqueueIdempotent == [][C4_EnqueueStep]_vars

\* a client has called add_url_to_queue on a visited URL while other URLs
\* were pending
C4_Witness ==
  /\ calls # <<>>
  /\ Last(calls) \in visited_urls
  /\ url_queue # <<>>

\* C5: every URL ever put on the frontier has base_domain as its host or has
\* no host.
C5_EnqueuedInScope ==
  \A netloc \in {Netloc(url) : url \in enqueued} :
    netloc = base_domain \/ netloc = <<>>

\* a page with a link to another host and a link without a host has been
\* extracted: the first was dropped, the second enqueued
C5_Witness ==
  /\ \E k \in DOMAIN extracted : U_other \in Range(extracted[k].anchors)
  /\ U_file \in enqueued
  /\ U_other \notin enqueued

\* C6 as stated: every URL passed to make_request has the host of the seed
\* URL.
C6_FetchesOnSeedHost ==
  \A i \in DOMAIN requests : Netloc(requests[i]) = Netloc(start_url)

\* C6 as amended: every URL passed to make_request has the host of the seed
\* URL or no host at all.
C6_FetchesOnSeedHostOrHostless ==
  \A seed_host \in {Netloc(start_url)} :
    \A netloc \in {Netloc(requests[i]) : i \in DOMAIN requests} :
      netloc = seed_host \/ netloc = <<>>

\* a URL without a host was fetched, after a page that also linked to
\* another host
C6_Witness ==
  /\ \E i \in DOMAIN requests : Netloc(requests[i]) = <<>>
  /\ \E k \in DOMAIN extracted : U_other \in Range(extracted[k].anchors)

\* C7: every URL on the frontier and every URL in visited_urls has an empty
\* fragment.
C7_FragmentsStripped ==
  \A url \in QueueUrls(url_queue) \cup visited_urls : Fragment(url) = <<>>

\* url without its fragment
Defrag(url) ==
  LET p == urlparse(url, <<>>)
  IN  urlunparse(p.scheme, p.netloc, p.path, p.params, p.query, <<>>)

\* the resolved URLs of the anchors of the pages extract_content returned a
\* record for, those that pass its filters (results[k] is the record of
\* the text extracted[k])
ResolvedLinks ==
  UNION { { urljoin(results[k].url, extracted[k].anchors[n]) :
              n \in { m \in DOMAIN extracted[k].anchors :
                        LinkOf(extracted[k].anchors[m], results[k].url)
                          # <<>> } } :
          k \in DOMAIN results }

\* an href of a crawled page holds a "#": only then can two resolved links
\* differ in their fragment, urljoin taking the fragment from the href alone
FragmentSeen ==
  \E k \in DOMAIN results :
    \E n \in DOMAIN extracted[k].anchors :
      "#" \in Range(extracted[k].anchors[n])

\* C8: when two links of crawled pages differ only in their fragment, the
\* frontier never holds either of them with its fragment, it holds their
\* common fragment-free URL at most once, and that URL is requested at most
\* once.
C8_FragmentsCollapse ==
  FragmentSeen =>
  \A a, b \in {<<full_link, Defrag(full_link)>> :
                 full_link \in ResolvedLinks} :
    (a[1] # b[1] /\ a[2] = b[2]) =>
      /\ QueueUrls(url_queue) \cap {a[1], b[1]} \subseteq {a[2]}
      /\ Pending(a[2]) <= 1
      /\ Count(requests, a[2]) <= 1
      /\ Pending(a[2]) + Count(requests, a[2]) <= 1

\* a page with the links p#frag1 and p#frag2 was extracted and p was
\* requested
C8_Witness ==
  /\ \E k \in DOMAIN extracted :
       {H_frag1, H_frag2} \subseteq Range(extracted[k].anchors)
  /\ Count(requests, U_p) = 1

\* the scenario: seed http://example.test/, max_pages = 2, robots.txt loaded
\* with "Disallow: /private", the seed page links to /a, /product/1 and
\* /private, every page the crawler requests is served, and the run is over
C9_Scenario ==
  /\ start_url = U_root
  /\ max_pages = 2
  /\ robots_txt_loaded /\ robot_rules = <<Disallow(H_private)>>
  /\ extracted # <<>>
  /\ extracted[1].anchors = <<H_a, H_product1, H_private>>
  /\ Len(requests) = Len(results)
  /\ pc \in {"DONE", "SAVED"}

\* C9: in the scenario the results are the seed page then /product/1, the
\* budget of 2 pages is used up, /private was never requested, and /a is
\* still pending and not visited.
C9_ScenarioOutcome ==
  C9_Scenario =>
    /\ Len(results) = 2
    /\ results[1].url = U_root
    /\ results[2].url = U_product1
    /\ pages_crawled = max_pages
    /\ requests = <<U_root, U_product1>>
    /\ U_private \notin Range(requests) \cup visited_urls
    /\ Pending(U_a) = 1
    /\ U_a \notin visited_urls

\* the scenario has run to its end
C9_Witness == C9_Scenario /\ Len(results) = 2

\* the loaded robots policy has a Disallow line for the path of url
PolicyDenies(url) ==
  /\ robots_txt_loaded
  /\ \E i \in DOMAIN robot_rules :
       /\ ~robot_rules[i].allowance
       /\ StartsWith(RobotsTarget(url), robot_rules[i].path)

\* C10 (one iteration): when the dequeued URL is denied, no request is
\* issued, results and pages_crawled stay, the URL is visited, the loop
\* is still running and the frontier is what the dequeue left.
C10_DeniedStep ==
  (dequeued' # dequeued /\ PolicyDenies(Last(dequeued')[2])) =>
    /\ requests' = requests
    /\ results' = results
    /\ pages_crawled' = pages_crawled
    /\ Last(dequeued')[2] \in visited_urls'
    /\ pc' = "RUNNING"
    /\ Len(url_queue') = Len(url_queue) - 1
    /\ \A e \in Range(url_queue) :
         Count(url_queue', e) =
           Count(url_queue, e) - (IF e = Last(dequeued') THEN 1 ELSE 0)

\* C10: a robots denial skips the URL without a fetch, a result or budget.
C10_DeniedSkips == [][C10_DeniedStep]_vars

\* a denied URL was dequeued while another URL was pending, which was
\* dequeued next
C10_Witness ==
  \E i \in DOMAIN dequeued :
    /\ i < Len(dequeued)
    /\ PolicyDenies(dequeued[i][2])
    /\ dequeued[i][2] \in visited_urls
    /\ dequeued[i][2] \notin Range(requests)

\* the pass that has just run called make_request
Requested == Len(requests') = Len(requests) + 1

\* C11 (one iteration): when make_request returns None, the URL is in
\* visited_urls, results and pages_crawled stay, nothing is enqueued (the
\* frontier is what the dequeue left), and the loop is still running: it
\* goes on to the next entry if one is pending.
C11_NoneStep ==
  (Requested /\ make_request(received') = None) =>
    /\ Last(requests') \in visited_urls'
    /\ results' = results
    /\ pages_crawled' = pages_crawled
    /\ enqueued' = enqueued
    /\ Len(url_queue') = Len(url_queue) - 1
    /\ Range(url_queue') \subseteq Range(url_queue)
    /\ pc' = "RUNNING"
    /\ LoopCond(url_queue', pages_crawled', max_pages) <=> url_queue' # <<>>

\* C11: a fetch that returns None (a content type other than text/html, an
\* HTTP error, a transport failure) skips the URL: visited, no record, no
\* budget, no links, and the loop continues.
C11_FailedFetchSkips == [][C11_NoneStep]_vars

\* the second request of a run was answered with application/pdf after a
\* page was recorded: its URL is visited and other URLs are still pending
C11_Witness ==
  /\ received.status = "ok" /\ received.content_type # "text/html"
  /\ Len(requests) = 2 /\ Len(results) = 1
  /\ Last(requests) \in visited_urls
  /\ url_queue # <<>>
  /\ pc = "RUNNING"

\* the URLs of the site
SiteUrls ==
  {U_root, U_a, U_c, U_p, U_p_top, U_private, U_product1, U_producta,
   U_productb, U_Product2, U_file, U_other}

\* C12: when fetch_robots_txt() failed, can_fetch allows every URL whatever
\* the parser holds, no dequeued URL is skipped as denied, the start URL was
\* enqueued and it is the first URL dequeued and requested.
C12_RobotsFailOpen ==
  (pc # "SEEDING" /\ ~robots_txt_loaded) =>
    /\ \A url \in SiteUrls : can_fetch(url)
    /\ start_url \in enqueued
    /\ Len(requests) = Len(dequeued)
    /\ IF dequeued = <<>>
       THEN /\ pc = "RUNNING"
            /\ LoopCond(url_queue, pages_crawled, max_pages)
       ELSE dequeued[1][2] = start_url /\ requests[1] = start_url

\* robots.txt failed to load while the parser holds a Disallow line for the
\* path of a URL, and that URL was requested
C12_Witness ==
  /\ ~robots_txt_loaded
  /\ requests # <<>>
  /\ ~allowance(robot_rules, RobotsTarget(Last(requests)))

\* C13: no failure in the processing of one URL ends crawl(): the run never
\* leaves the loop by an exception.
C13_FailuresContained == pc # "ABORTED"

\* C14 (one iteration): when make_request returns a text, the pass appends
\* exactly one record with the URL to results and adds one to pages_crawled;
\* a pass that requested a page and left results as they were got None.
C14_TextStep ==
  (Requested /\ pc' = "RUNNING") =>
    /\ make_request(received') # None =>
         /\ Len(results') = Len(results) + 1
         /\ SubSeq(results', 1, Len(results)) = results
         /\ Last(results').url = Last(requests')
         /\ pages_crawled' = pages_crawled + 1
    /\ results' = results => make_request(received') = None

\* C14: every text that make_request returns gives one record and one unit
\* of budget, whatever the text is.
C14_TextFetchRecorded == [][C14_TextStep]_vars

C16_ExitStep ==
  /\ (pc = "RUNNING" /\ pc' = "DONE") =>
       (url_queue = <<>> \/ pages_crawled = max_pages)
  /\ dequeued' # dequeued =>
       (url_queue # <<>> /\ pages_crawled < max_pages)

C17_PolitenessDelay ==
  /\ \A i \in DOMAIN events :
       events[i] = "urlopen_page" => (i > 1 /\ events[i - 1] = "sleep")
  /\ Count(events, "urlopen_page") = Len(requests)
  /\ Count(events, "sleep") = Len(requests)
  /\ requests # <<>> => received # NoResponse

\* two pages were requested after the request of robots.txt
C17_Witness ==
  events = <<"urlopen_robots", "sleep", "urlopen_page",
             "sleep", "urlopen_page">>

\* C18 (one step): visited_urls loses no URL and results keeps its records
\* in place.
C18_GrowStep ==
  /\ visited_urls \subseteq visited_urls'
  /\ Len(results') >= Len(results)
  /\ SubSeq(results', 1, Len(results)) = results

\* C18: visited_urls only grows and results is append-only.
C18_Monotonic == [][C18_GrowStep]_vars

\* two records were appended and a third URL is visited without a record
C18_Witness == Len(results) = 2 /\ Cardinality(visited_urls) = 3

\* C19 (the save step): save_results returns True after the write and False
\* when the write failed, never anything else, and leaves results,
\* visited_urls and the frontier as they were.
C19_SaveStep ==
  (pc = "DONE" /\ pc' # "DONE") =>
    /\ pc' = "SAVED"
    /\ saved' = (IF written' THEN "True" ELSE "False")
    /\ results' = results
    /\ visited_urls' = visited_urls
    /\ url_queue' = url_queue

\* C19: a failed write is reported as False, without an exception and
\* without a change to the state held in memory.
C19_SaveFailureReported == [][C19_SaveStep]_vars

\* the write failed on a run that holds a record, a visited URL and a
\* pending URL
C19_Witness ==
  /\ pc = "SAVED" /\ ~written /\ saved = "False"
  /\ results # <<>> /\ url_queue # <<>>

\* the keys of a page of the crawler: no description, no product_features,
\* no product_reviews
CrawlerSchema(doc) ==
  DOMAIN doc = {"title", "url", "first_paragraph", "links"}

DocumentUrls == {documents[i].url : i \in DOMAIN documents}

\* a list of URLs of the documents in increasing order, so without duplicate
SortedUrls(urls) ==
  /\ \A i \in DOMAIN urls : urls[i] \in DocumentUrls
  /\ \A i \in 1..(Len(urls) - 1) : StrLess(urls[i], urls[i + 1])

\* an index from keys to URL lists
UrlListIndex(index) == \A key \in DOMAIN index : SortedUrls(index[key])

\* an index from tokens to the positions they have in the text of each URL
PositionIndex(index) ==
  \A token \in DOMAIN index :
    /\ token # <<>>
    /\ DOMAIN index[token] # {}
    /\ \A url \in DOMAIN index[token] :
         /\ url \in DocumentUrls
         /\ index[token][url] # <<>>
         /\ \A i \in DOMAIN index[token][url] : index[token][url][i] >= 0

\* an index from URLs to the statistics of their reviews
ReviewsIndex(index) ==
  \A url \in DOMAIN index :
    /\ url \in DocumentUrls
    /\ index[url].total_reviews >= 1

WellFormed(entry) ==
  IF entry.name \in {"title_index", "description_index"}
  THEN PositionIndex(entry.index)
  ELSE IF entry.name = "reviews_index" THEN ReviewsIndex(entry.index)
  ELSE /\ UrlListIndex(entry.index)
       /\ entry.name = "price_index"
            => DOMAIN entry.index = {S_budget, S_midrange, S_premium}

\* C20: on documents that carry only title, url, first_paragraph and links,
\* no index-building method raises, and every index that main() has built
\* is well formed: its URL lists are sorted, free of duplicates and made of
\* the documents' URLs, its position lists are not empty, and the price
\* index has its three ranges
C20_IndexerTolerates ==
  (\A i \in DOMAIN documents : CrawlerSchema(documents[i]))
    => /\ pc # "INDEX_FAILED"
       /\ \A k \in DOMAIN indexes : WellFormed(indexes[k])

\* main() has built the eleven indexes from two pages of the crawler, the
\* title index holding a token and the price index a URL
C20_Witness ==
  /\ pc = "INDEXED"
  /\ Len(documents) = 2
  /\ \A i \in DOMAIN documents : CrawlerSchema(documents[i])
  /\ Len(indexes) = 11
  /\ indexes[3].index # EmptyDict
  /\ indexes[10].index[S_midrange] # <<>>

\* the order of one run: before crawl() has started nothing was loaded,
\* queued, dequeued or requested; afterwards robots.txt was requested once,
\* as the first call of the run, and the seed was put on the frontier;
\* save_results has run only in SAVED
C21_Order ==
  /\ pc = "SEEDING" =>
       events = <<>> /\ enqueued = {} /\ dequeued = <<>> /\ requests = <<>>
  /\ pc # "SEEDING" =>
       /\ events[1] = "urlopen_robots"
       /\ Count(events, "urlopen_robots") = 1
       /\ start_url \in enqueued
  /\ (saved # "none") <=> (pc = "SAVED")

\* the run advances only from SEEDING to RUNNING, from RUNNING to DONE and
\* from DONE to the call of save_results, which happens once
C21_Step ==
  /\ pc' # pc =>
       <<pc, pc'>> \in {<<"SEEDING", "RUNNING">>, <<"RUNNING", "DONE">>,
                        <<"DONE", "SAVED">>}
  /\ saved' # saved => (pc = "DONE" /\ saved = "none")

\* C21: one invocation advances only SEEDING -> RUNNING -> DONE; robots.txt
\* is requested exactly once, before the seed is enqueued and before any page
\* request; the seed is enqueued before the first dequeue; save_results is
\* called exactly once, after the loop has reached DONE.
C21_Lifecycle ==
  /\ []C21_Order
  /\ [][C21_Step]_vars
  /\ <>(saved # "none")

\* what the claim gives for a body: the first of the three decodings that
\* does not fail, else the UTF-8 decoding with U+FFFD for what is ill-formed
Claimed(bytes) ==
  IF ~decode(bytes, "utf-8").raised THEN decode(bytes, "utf-8").text
  ELSE IF ~decode(bytes, "iso-8859-1").raised
  THEN decode(bytes, "iso-8859-1").text
  ELSE IF ~decode(bytes, "windows-1252").raised
  THEN decode(bytes, "windows-1252").text
  ELSE decode_utf8(bytes, "replace").text

\* C22: for the body of an HTML answer make_request returns a text, never
\* None: that of the first of utf-8, iso-8859-1 and windows-1252 that decodes
\* the body without error, and if none does the UTF-8 decoding with the
\* invalid sequences replaced.
C22_DecodingOrder ==
  pc = "RETURNED" =>
    /\ html_text \in Seq(0..1114111)
    /\ html_text = Claimed(html_bytes)

\* a body that is not UTF-8 was returned in its iso-8859-1 decoding
C22_Witness ==
  /\ pc = "RETURNED"
  /\ decode(html_bytes, "utf-8").raised
  /\ Len(html_bytes) = MaxBytes
  /\ html_text = html_bytes

\* the prefixes of the hrefs that give no link
ExcludedPrefixes ==
  { <<"j", "a", "v", "a", "s", "c", "r", "i", "p", "t", ":">>,
    <<"m", "a", "i", "l", "t", "o", ":">>,
    <<"t", "e", "l", ":">>,
    <<"#">> }

\* the anchor is in the body, its href is not empty and has none of the
\* prefixes, and resolved against url it has no host or the host base_domain
Emits(a, url) ==
  /\ a.in_body
  /\ ~a.href.none
  /\ a.href.val # <<>>
  /\ \A prefix \in ExcludedPrefixes : ~StartsWith(a.href.val, prefix)
  /\ Netloc(urljoin(url, a.href.val)) \in {<<>>, base_domain}

\* the anchors of the document that give a link, in document order
Emitting == SelectSeq(soup.anchors, LAMBDA a : Emits(a, page.url))

Qualifying(paragraphs) ==
  {i \in DOMAIN paragraphs : Len(strip(paragraphs[i])) > 20}

\* the first of them
FirstOf(positions) == CHOOSE i \in positions : \A j \in positions : i <= j

\* C25: first_paragraph is the trimmed text of the first paragraph whose
\* trimmed text is longer than 20 characters; if there is none, the trimmed
\* text of the first paragraph of the document; without a paragraph, the
\* empty text.
C25_FirstParagraph ==
  pc = "EXTRACTED" =>
    page.first_paragraph =
      IF Qualifying(soup.paragraphs) # {}
      THEN strip(soup.paragraphs[FirstOf(Qualifying(soup.paragraphs))])
      ELSE IF soup.paragraphs # <<>> THEN strip(soup.paragraphs[1])
      ELSE <<>>

\* the first paragraph has 21 characters with its blanks and 19 without, the
\* second has 21 without: the second is taken
C25_Witness ==
  /\ pc = "EXTRACTED"
  /\ soup.paragraphs = <<P_padded, P_long>>
  /\ page.first_paragraph = strip(P_long)
  /\ Len(page.first_paragraph) = 21

\* the anchors, of a page at url, that pass the tests of the loop of
\* extract_content
PassingAnchors(anchors, url) ==
  {n \in DOMAIN anchors : LinkOf(anchors[n], url) # <<>>}

\* the entries of the queue for the URL
EntriesOf(queue, url) == {i \in DOMAIN queue : queue[i][2] = url}

\* the page that the pass appends to results
Recorded == results'[Len(results) + 1]

\* C24: extract_content does not de-duplicate, the links of the page that a
\* pass of the loop records have one entry for each occurrence of an anchor
\* that passes the filters; after the pass has enqueued them the frontier has
\* at most one entry for the URL of a link.
C24_NoDeduplication ==
  [][results' # results =>
       /\ Len(results') = Len(results) + 1
       /\ Len(Recorded.links)
            = Cardinality(PassingAnchors(extracted'[Len(results) + 1].anchors,
                                         Recorded.url))
       /\ \A n \in DOMAIN Recorded.links :
            Cardinality(EntriesOf(url_queue', Recorded.links[n].url)) <= 1]_vars

\* a page recorded has the same URL at two places of its links, and the
\* frontier holds one entry for it
C24_Witness ==
  \E k \in DOMAIN results :
    \E m, n \in DOMAIN results[k].links :
      /\ m < n
      /\ results[k].links[m].url = results[k].links[n].url
      /\ Cardinality(EntriesOf(url_queue, results[k].links[n].url)) = 1

\* no URL is pending twice and no pending URL is visited
C26_Frontier ==
  \A url \in QueueUrls(url_queue) : Pending(url) = 1 /\ url \notin visited_urls

\* the URL that get() returns is not visited, the pass takes the branch that
\* marks it visited and not the "continue" of line 226
C26_DequeueStep ==
  dequeued' # dequeued =>
    /\ Last(dequeued')[2] \notin visited_urls
    /\ visited_urls' = visited_urls \cup {Last(dequeued')[2]}

\* C26: in every state of a run no URL is pending twice and no pending URL
\* is in visited_urls; the URL a dequeue returns is never visited already,
\* the test of line 225 is never true.
C26_RecheckNeverTaken == []C26_Frontier /\ [][C26_DequeueStep]_vars

\* a page recorded links to a URL visited before it, entries are pending and
\* a second dequeue has happened
C26_Witness ==
  /\ Len(dequeued) >= 2
  /\ url_queue # <<>>
  /\ \E k \in DOMAIN results : \E n \in DOMAIN results[k].links :
       /\ results[k].links[n].url \in visited_urls
       /\ results[k].links[n].url # results[k].url

\* C27: between the passes of the loop pages_crawled is len(results), the
\* url of every record of results is in visited_urls, and results has at most
\* as many records as there are visited URLs.
C27_CountersAgree ==
  /\ pages_crawled = Len(results)
  /\ \A k \in DOMAIN results : results[k].url \in visited_urls
  /\ Len(results) <= Cardinality(visited_urls)

\* two pages are recorded and a third URL is visited without a record
C27_Witness ==
  /\ pc = "RUNNING"
  /\ Len(results) = 2
  /\ pages_crawled = 2
  /\ Cardinality(visited_urls) = 3
  /\ Len(requests) = 3

\* the answer gives make_request no text of a page
NoPage(response) ==
  \/ response.status # "ok"
  \/ response.content_type # "text/html"
  \/ response.body.kind # "html"

\* one request was made, the one for the seed, and it gave no page
SeedFetchFailed == Len(requests) = 1 /\ NoPage(received)

\* C28: the first URL dequeued is the seed, whatever its priority; the first
\* record of results, if there is one, has the url of the seed; when the
\* seed is denied by robots.txt or its fetch gives no page, results and the
\* frontier are empty after that one pass, which is the last.
C28_SeedFirst ==
  /\ dequeued # <<>> => dequeued[1][2] = start_url
  /\ results # <<>> => results[1].url = start_url
  /\ (dequeued # <<>> /\ (SeedFetchFailed \/ ~can_fetch(start_url)))
       => /\ results = <<>>
          /\ url_queue = <<>>
          /\ Len(dequeued) = 1
          /\ ~LoopCond(url_queue, pages_crawled, max_pages)
          /\ pc \in {"RUNNING", "DONE", "SAVED"}

\* the seed was denied: the run is over after one dequeue, without a record
C28_Witness ==
  /\ pc = "DONE"
  /\ Len(dequeued) = 1
  /\ ~can_fetch(start_url)
  /\ requests = <<>>
  /\ results = <<>>
  /\ url_queue = <<>>

\* C29: every record of results but the first has the url of a link of an
\* earlier record.
C29_DiscoveredThroughEarlier ==
  \A i \in 2..Len(results) :
    \E j \in 1..(i - 1) : \E n \in DOMAIN results[j].links :
      results[j].links[n].url = results[i].url

\* a second page is recorded, after a page whose fetch failed
C29_Witness ==
  /\ Len(results) = 2
  /\ Len(requests) = 3
  /\ requests[2] # results[2].url
  /\ \E n \in DOMAIN results[1].links :
       results[1].links[n].url = results[2].url

====
